---- MODULE Spec2Model ----
(***************************************************************************)
(* SEC EDGAR Fraud Analyzer: model of the analysis core (the five models,  *)
(* the FraudAnalyzer aggregator) and of its callers.                       *)
(*                                                                         *)
(* Numbers.  The code computes in double.  The model computes exactly: a   *)
(* number is a record [n, d, e] standing for (n / d) * 10^e with d > 0 and *)
(* gcd(n, d) = 1.  The decimal exponent e lets the model hold values on    *)
(* both sides of the 1e-10 tolerance of the safe-division helpers.         *)
(***************************************************************************)
EXTENDS Integers, Sequences, FiniteSets, TLC

\* ------------------------------------------------------------------------
\* Exact arithmetic
\* ------------------------------------------------------------------------

IAbs(i) == IF i < 0 THEN -i ELSE i

IMin(a, b) == IF a <= b THEN a ELSE b

IMax(a, b) == IF a >= b THEN a ELSE b

RECURSIVE GCD(_, _)
GCD(a, b) == IF b = 0 THEN a ELSE GCD(b, a % b)

RECURSIVE Pow10(_)
Pow10(k) == IF k = 0 THEN 1 ELSE 10 * Pow10(k - 1)

\* (n / d) * 10^e in lowest terms, d > 0; zero is always [0, 1, 0]
Num(n, d, e) ==
    IF n = 0 THEN [n |-> 0, d |-> 1, e |-> 0]
    ELSE LET g == GCD(IAbs(n), IAbs(d))
             s == IF d < 0 THEN -1 ELSE 1
         IN  [n |-> s * (n \div g), d |-> s * (d \div g), e |-> e]

R(n, d) == Num(n, d, 0)

I(n) == Num(n, 1, 0)

Zero == I(0)

One == I(1)

RNeg(x) == [x EXCEPT !.n = -x.n]

RAbs(x) == [x EXCEPT !.n = IAbs(x.n)]

RAdd(x, y) ==
    IF x.n = 0 THEN y
    ELSE IF y.n = 0 THEN x
    ELSE LET e  == IMin(x.e, y.e)
             xn == x.n * Pow10(x.e - e)
             yn == y.n * Pow10(y.e - e)
             g  == GCD(x.d, y.d)
         IN  Num(xn * (y.d \div g) + yn * (x.d \div g), (x.d \div g) * y.d, e)

RSub(x, y) == RAdd(x, RNeg(y))

RMul(x, y) ==
    LET g1 == GCD(IAbs(x.n), y.d)
        g2 == GCD(IAbs(y.n), x.d)
    IN  IF x.n = 0 \/ y.n = 0 THEN Zero
        ELSE Num((x.n \div g1) * (y.n \div g2), (x.d \div g2) * (y.d \div g1), x.e + y.e)

\* ordinary division x / y, y # 0
RDiv(x, y) ==
    LET g1 == GCD(IAbs(x.n), IAbs(y.n))
        g2 == GCD(x.d, y.d)
    IN  IF x.n = 0 THEN Zero
        ELSE Num((x.n \div g1) * (y.d \div g2), (x.d \div g2) * (y.n \div g1), x.e - y.e)

\* a * 10^k < b  and  a * 10^k <= b  for a, b > 0, k >= 0, without overflow
RECURSIVE ScaledLt(_, _, _)
ScaledLt(a, b, k) ==
    IF k = 0 THEN a < b
    ELSE IF a > b \div 10 THEN FALSE
    ELSE ScaledLt(10 * a, b, k - 1)

RECURSIVE ScaledLe(_, _, _)
ScaledLe(a, b, k) ==
    IF k = 0 THEN a <= b
    ELSE IF a > b \div 10 THEN FALSE
    ELSE ScaledLe(10 * a, b, k - 1)

\* a / b < c / d for a, c >= 0 and b, d > 0, by comparing the integer parts
\* and then the reciprocals of the fractional parts (no product is formed)
RECURSIVE FracLt(_, _, _, _)
FracLt(a, b, c, d) ==
    LET q1 == a \div b
        q2 == c \div d
        r1 == a % b
        r2 == c % d
    IN  IF q1 # q2 THEN q1 < q2
        ELSE IF r2 = 0 THEN FALSE
        ELSE IF r1 = 0 THEN TRUE
        ELSE FracLt(d, r2, b, r1)

\* x < y for x, y > 0
MagLt(x, y) ==
    IF x.e = y.e THEN FracLt(x.n, x.d, y.n, y.d)
    ELSE IF x.e > y.e THEN ScaledLt(x.n * y.d, y.n * x.d, x.e - y.e)
    ELSE ~ScaledLe(y.n * x.d, x.n * y.d, y.e - x.e)

RLt(x, y) ==
    IF x.n < 0 /\ y.n >= 0 THEN TRUE
    ELSE IF x.n >= 0 /\ y.n <= 0 THEN FALSE
    ELSE IF x.n = 0 THEN y.n > 0
    ELSE IF x.n > 0 THEN MagLt(x, y)
    ELSE MagLt(RAbs(y), RAbs(x))

RGt(x, y) == RLt(y, x)

RLe(x, y) == ~RLt(y, x)

RGe(x, y) == ~RLt(x, y)

\* equality of values (two records may stand for the same number)
REq(x, y) == ~RLt(x, y) /\ ~RLt(y, x)

RMin(x, y) == IF RLt(y, x) THEN y ELSE x

RMax(x, y) == IF RLt(x, y) THEN y ELSE x

\* std::clamp(v, lo, hi)
RClamp(v, lo, hi) == IF RLt(v, lo) THEN lo ELSE IF RLt(hi, v) THEN hi ELSE v

\* ------------------------------------------------------------------------
\* Data (types.h).  A FinancialData record holds the line items the core
\* reads; every amount is a number as above.
\* ------------------------------------------------------------------------

\* RiskLevel, in the order of the enum's declaration
RiskLevelOrd(level) ==
    CASE level = "LOW" -> 0
      [] level = "MODERATE" -> 1
      [] level = "ELEVATED" -> 2
      [] level = "HIGH" -> 3
      [] level = "CRITICAL" -> 4

\* IncomeStatement::gross_margin / net_margin
gross_margin(is) == IF RGt(is.revenue, Zero) THEN RDiv(is.gross_profit, is.revenue) ELSE Zero

net_margin(is) == IF RGt(is.revenue, Zero) THEN RDiv(is.net_income, is.revenue) ELSE Zero

\* BalanceSheet::debt_ratio
debt_ratio(bs) == IF RGt(bs.total_assets, Zero) THEN RDiv(bs.total_liabilities, bs.total_assets) ELSE Zero

\* the 1e-10 tolerance of the safe-division helpers
EPSILON == Num(1, 1, -10)

\* ------------------------------------------------------------------------
\* Beneish M-Score (models/beneish.cpp)
\* ------------------------------------------------------------------------

Beneish_safe_divide_noabs(num, denom, default_val) ==
    IF RLt(denom, EPSILON) THEN default_val ELSE RDiv(num, denom)

Beneish_safe_divide(num, denom, default_val) ==
    IF RLt(RAbs(denom), EPSILON) THEN default_val ELSE RDiv(num, denom)

calculate_dsri(current, prior) ==
    LET current_ratio == Beneish_safe_divide(current.balance_sheet.accounts_receivable,
                                             current.income_statement.revenue, One)
        prior_ratio   == Beneish_safe_divide(prior.balance_sheet.accounts_receivable,
                                             prior.income_statement.revenue, One)
    IN  Beneish_safe_divide(current_ratio, prior_ratio, One)

calculate_gmi(current, prior) ==
    LET current_gm == gross_margin(current.income_statement)
        prior_gm   == gross_margin(prior.income_statement)
    IN  Beneish_safe_divide(prior_gm, current_gm, One)

calculate_aqi(current, prior) ==
    LET current_aq == RSub(One, Beneish_safe_divide(
                          RAdd(current.balance_sheet.current_assets, current.balance_sheet.ppe),
                          current.balance_sheet.total_assets, Zero))
        prior_aq   == RSub(One, Beneish_safe_divide(
                          RAdd(prior.balance_sheet.current_assets, prior.balance_sheet.ppe),
                          prior.balance_sheet.total_assets, Zero))
    IN  Beneish_safe_divide(current_aq, prior_aq, One)

calculate_sgi(current, prior) ==
    Beneish_safe_divide(current.income_statement.revenue, prior.income_statement.revenue, One)

calculate_depi(current, prior) ==
    LET current_rate == Beneish_safe_divide(current.income_statement.depreciation,
                            RAdd(current.income_statement.depreciation, current.balance_sheet.ppe), One)
        prior_rate   == Beneish_safe_divide(prior.income_statement.depreciation,
                            RAdd(prior.income_statement.depreciation, prior.balance_sheet.ppe), One)
    IN  Beneish_safe_divide(prior_rate, current_rate, One)

calculate_sgai(current, prior) ==
    LET current_ratio == Beneish_safe_divide(current.income_statement.sga_expense,
                                             current.income_statement.revenue, One)
        prior_ratio   == Beneish_safe_divide(prior.income_statement.sga_expense,
                                             prior.income_statement.revenue, One)
    IN  Beneish_safe_divide(current_ratio, prior_ratio, One)

calculate_lvgi(current, prior) ==
    LET current_lev == Beneish_safe_divide(current.balance_sheet.total_liabilities,
                                           current.balance_sheet.total_assets, One)
        prior_lev   == Beneish_safe_divide(prior.balance_sheet.total_liabilities,
                                           prior.balance_sheet.total_assets, One)
    IN  Beneish_safe_divide(current_lev, prior_lev, One)

calculate_tata(current) ==
    LET accruals == RSub(current.income_statement.net_income, current.cash_flow.operating_cash_flow)
    IN  Beneish_safe_divide(accruals, current.balance_sheet.total_assets, Zero)

Beneish_THRESHOLD == R(-222, 100)

is_likely_manipulator_ge(m_score) == RGe(m_score, Beneish_THRESHOLD)

is_likely_manipulator(m_score) == RGt(m_score, Beneish_THRESHOLD)

Beneish_get_zone(m_score) ==
    IF RGt(m_score, R(-178, 100)) THEN "High Risk"
    ELSE IF RGt(m_score, Beneish_THRESHOLD) THEN "Elevated Risk"
    ELSE IF RGt(m_score, R(-250, 100)) THEN "Moderate Risk"
    ELSE "Low Risk"

\* 1 / (1 + exp(-(m_score + 2.22))).  exp has no exact value here: the
\* logistic curve is tabulated to three decimals at the midpoints of unit
\* bands of x = m_score + 2.22, so the result is increasing in m_score and
\* lies strictly between 0 and 1, as the code's is.
Beneish_score_to_probability(m_score) ==
    LET x == RAdd(m_score, R(222, 100))
    IN  IF RLt(x, I(-4)) THEN R(11, 1000)
        ELSE IF RLt(x, I(-3)) THEN R(29, 1000)
        ELSE IF RLt(x, I(-2)) THEN R(76, 1000)
        ELSE IF RLt(x, I(-1)) THEN R(182, 1000)
        ELSE IF RLt(x, I(0)) THEN R(378, 1000)
        ELSE IF RLt(x, I(1)) THEN R(622, 1000)
        ELSE IF RLt(x, I(2)) THEN R(818, 1000)
        ELSE IF RLt(x, I(3)) THEN R(924, 1000)
        ELSE IF RLt(x, I(4)) THEN R(971, 1000)
        ELSE R(989, 1000)

Beneish_probability_to_risk(probability) == RClamp(probability, Zero, One)

\* the sequence s extended by x when the condition holds (an if + push_back)
PushIf(s, cond, x) == IF cond THEN Append(s, x) ELSE s

generate_flags_ge(result) ==
    LET f1 == PushIf(<< >>, RGe(result.dsri, R(1465, 1000)), "High Days Sales in Receivables - potential revenue manipulation")
        f2 == PushIf(f1, RGe(result.gmi, R(1193, 1000)), "Declining gross margins - pressure to manipulate")
        f3 == PushIf(f2, RGe(result.aqi, R(1254, 1000)), "Increasing non-current assets - potential capitalization abuse")
        f4 == PushIf(f3, RGe(result.sgi, R(1607, 1000)), "Rapid sales growth - higher manipulation risk")
        f5 == PushIf(f4, RGe(result.tata, R(18, 1000)), "High accruals relative to assets - earnings quality concern")
        f6 == PushIf(f5, RGe(result.lvgi, R(1111, 1000)), "Increasing leverage - financial pressure")
    IN  f6

generate_flags(result) ==
    LET f1 == PushIf(<< >>, RGt(result.dsri, R(1465, 1000)), "High Days Sales in Receivables - potential revenue manipulation")
        f2 == PushIf(f1, RGt(result.gmi, R(1193, 1000)), "Declining gross margins - pressure to manipulate")
        f3 == PushIf(f2, RGt(result.aqi, R(1254, 1000)), "Increasing non-current assets - potential capitalization abuse")
        f4 == PushIf(f3, RGt(result.sgi, R(1607, 1000)), "Rapid sales growth - higher manipulation risk")
        f5 == PushIf(f4, RGt(result.tata, R(18, 1000)), "High accruals relative to assets - earnings quality concern")
        f6 == PushIf(f5, RGt(result.lvgi, R(1111, 1000)), "Increasing leverage - financial pressure")
    IN  f6

\* the weighted sum of BeneishModel::calculate
Beneish_m_score(dsri, gmi, aqi, sgi, depi, sgai, tata, lvgi) ==
    RAdd(RAdd(RAdd(RAdd(RAdd(RAdd(RAdd(RAdd(R(-484, 100),
        RMul(R(920, 1000), dsri)),
        RMul(R(528, 1000), gmi)),
        RMul(R(404, 1000), aqi)),
        RMul(R(892, 1000), sgi)),
        RMul(R(115, 1000), depi)),
        RMul(R(-172, 1000), sgai)),
        RMul(R(4679, 1000), tata)),
        RMul(R(-327, 1000), lvgi))

Beneish_calculate(current, prior) ==
    LET dsri == calculate_dsri(current, prior)
        gmi  == calculate_gmi(current, prior)
        aqi  == calculate_aqi(current, prior)
        sgi  == calculate_sgi(current, prior)
        depi == calculate_depi(current, prior)
        sgai == calculate_sgai(current, prior)
        lvgi == calculate_lvgi(current, prior)
        tata == calculate_tata(current)
        m_score == Beneish_m_score(dsri, gmi, aqi, sgi, depi, sgai, tata, lvgi)
        ratios == [dsri |-> dsri, gmi |-> gmi, aqi |-> aqi, sgi |-> sgi,
                   depi |-> depi, sgai |-> sgai, lvgi |-> lvgi, tata |-> tata]
    IN  [m_score |-> m_score,
         dsri |-> dsri, gmi |-> gmi, aqi |-> aqi, sgi |-> sgi,
         depi |-> depi, sgai |-> sgai, lvgi |-> lvgi, tata |-> tata,
         risk_score |-> Beneish_probability_to_risk(Beneish_score_to_probability(m_score)),
         likely_manipulator |-> is_likely_manipulator(m_score),
         zone |-> Beneish_get_zone(m_score),
         flags |-> generate_flags(ratios)]

\* ------------------------------------------------------------------------
\* Altman Z-Score (models/altman.cpp)
\* ------------------------------------------------------------------------

Altman_safe_divide(num, denom, default_val) ==
    IF RLt(RAbs(denom), EPSILON) THEN default_val ELSE RDiv(num, denom)

calculate_x1(data) ==
    LET wc == RSub(data.balance_sheet.current_assets, data.balance_sheet.current_liabilities)
    IN  Altman_safe_divide(wc, data.balance_sheet.total_assets, Zero)

calculate_x2(data) ==
    Altman_safe_divide(data.balance_sheet.retained_earnings, data.balance_sheet.total_assets, Zero)

calculate_x3(data) ==
    Altman_safe_divide(data.income_statement.operating_income, data.balance_sheet.total_assets, Zero)

calculate_x4_book(data, market_cap) ==
    Altman_safe_divide(data.balance_sheet.total_equity, data.balance_sheet.total_liabilities, Zero)

calculate_x4(data, market_cap) ==
    LET equity == IF RGt(market_cap, Zero) THEN market_cap ELSE data.balance_sheet.total_equity
    IN  Altman_safe_divide(equity, data.balance_sheet.total_liabilities, Zero)

calculate_x5(data) ==
    Altman_safe_divide(data.income_statement.revenue, data.balance_sheet.total_assets, Zero)

SAFE_THRESHOLD == R(299, 100)

DISTRESS_THRESHOLD == R(181, 100)

Altman_get_zone(z_score) ==
    IF RGt(z_score, SAFE_THRESHOLD) THEN "Safe"
    ELSE IF RGt(z_score, DISTRESS_THRESHOLD) THEN "Gray"
    ELSE "Distress"

Altman_score_to_probability(z_score) ==
    IF RGt(z_score, R(30, 10)) THEN R(1, 100)
    ELSE IF RGt(z_score, R(27, 10)) THEN R(5, 100)
    ELSE IF RGt(z_score, R(24, 10)) THEN R(10, 100)
    ELSE IF RGt(z_score, R(20, 10)) THEN R(20, 100)
    ELSE IF RGt(z_score, R(18, 10)) THEN R(35, 100)
    ELSE IF RGt(z_score, R(15, 10)) THEN R(50, 100)
    ELSE IF RGt(z_score, R(12, 10)) THEN R(65, 100)
    ELSE IF RGt(z_score, R(10, 10)) THEN R(75, 100)
    ELSE IF RGt(z_score, R(5, 10)) THEN R(85, 100)
    ELSE R(95, 100)

Altman_probability_to_risk(probability) == RClamp(probability, Zero, One)

Altman_calculate(data, market_cap) ==
    LET x1 == calculate_x1(data)
        x2 == calculate_x2(data)
        x3 == calculate_x3(data)
        x4 == calculate_x4(data, market_cap)
        x5 == calculate_x5(data)
        z_score == RAdd(RAdd(RAdd(RAdd(
                       RMul(R(12, 10), x1),
                       RMul(R(14, 10), x2)),
                       RMul(R(33, 10), x3)),
                       RMul(R(6, 10), x4)),
                       RMul(R(10, 10), x5))
        p == Altman_score_to_probability(z_score)
    IN  [z_score |-> z_score, x1 |-> x1, x2 |-> x2, x3 |-> x3, x4 |-> x4, x5 |-> x5,
         bankruptcy_probability |-> p,
         risk_score |-> Altman_probability_to_risk(p),
         zone |-> Altman_get_zone(z_score)]

\* AltmanZPrimeModel: its own thresholds, and the Z'' of a snapshot
ZPrime_SAFE_THRESHOLD == R(260, 100)

ZPrime_DISTRESS_THRESHOLD == R(110, 100)

AltmanZPrime_calculate(data) ==
    LET bs == data.balance_sheet
        wc == RSub(bs.current_assets, bs.current_liabilities)
        x1 == IF RGt(bs.total_assets, Zero) THEN RDiv(wc, bs.total_assets) ELSE Zero
        x2 == IF RGt(bs.total_assets, Zero) THEN RDiv(bs.retained_earnings, bs.total_assets) ELSE Zero
        x3 == IF RGt(bs.total_assets, Zero)
              THEN RDiv(data.income_statement.operating_income, bs.total_assets) ELSE Zero
        x4 == IF RGt(bs.total_liabilities, Zero)
              THEN RDiv(bs.total_equity, bs.total_liabilities) ELSE Zero
        z_score == RAdd(RAdd(RAdd(RMul(R(656, 100), x1), RMul(R(326, 100), x2)),
                             RMul(R(672, 100), x3)), RMul(R(105, 100), x4))
        bankruptcy_probability == Altman_score_to_probability(z_score)
    IN  [z_score |-> z_score, x1 |-> x1, x2 |-> x2, x3 |-> x3, x4 |-> x4, x5 |-> Zero,
         bankruptcy_probability |-> bankruptcy_probability,
         risk_score |-> RClamp(bankruptcy_probability, Zero, One),
         zone |-> IF RGt(z_score, ZPrime_SAFE_THRESHOLD) THEN "Safe"
                  ELSE IF RGt(z_score, ZPrime_DISTRESS_THRESHOLD) THEN "Gray"
                  ELSE "Distress"]

\* ------------------------------------------------------------------------
\* Piotroski F-Score (models/piotroski.cpp)
\* ------------------------------------------------------------------------

calculate_roa(data) ==
    IF RLt(RAbs(data.balance_sheet.total_assets), EPSILON) THEN Zero
    ELSE RDiv(data.income_statement.net_income, data.balance_sheet.total_assets)

calculate_leverage(data) ==
    IF RLt(RAbs(data.balance_sheet.total_assets), EPSILON) THEN Zero
    ELSE RDiv(data.balance_sheet.long_term_debt, data.balance_sheet.total_assets)

calculate_current_ratio(data) ==
    IF RLt(RAbs(data.balance_sheet.current_liabilities), EPSILON) THEN Zero
    ELSE RDiv(data.balance_sheet.current_assets, data.balance_sheet.current_liabilities)

calculate_gross_margin(data) ==
    IF RLt(RAbs(data.income_statement.revenue), EPSILON) THEN Zero
    ELSE RDiv(data.income_statement.gross_profit, data.income_statement.revenue)

calculate_asset_turnover(data) ==
    IF RLt(RAbs(data.balance_sheet.total_assets), EPSILON) THEN Zero
    ELSE RDiv(data.income_statement.revenue, data.balance_sheet.total_assets)

check_roa_positive(current) == RGt(current.income_statement.net_income, Zero)

check_cfo_positive(current) == RGt(current.cash_flow.operating_cash_flow, Zero)

check_roa_increasing(current, prior) == RGt(calculate_roa(current), calculate_roa(prior))

check_quality_of_earnings(current) ==
    RGt(current.cash_flow.operating_cash_flow, current.income_statement.net_income)

check_leverage_decreasing(current, prior) ==
    RLt(calculate_leverage(current), calculate_leverage(prior))

check_liquidity_increasing(current, prior) ==
    RGt(calculate_current_ratio(current), calculate_current_ratio(prior))

check_no_dilution(current, prior) ==
    RLe(current.balance_sheet.shares_outstanding, prior.balance_sheet.shares_outstanding)

check_gross_margin_increasing(current, prior) ==
    RGt(calculate_gross_margin(current), calculate_gross_margin(prior))

check_asset_turnover_increasing(current, prior) ==
    RGt(calculate_asset_turnover(current), calculate_asset_turnover(prior))

WEAK_THRESHOLD == 3

STRONG_THRESHOLD == 7

get_interpretation_gt(f_score) ==
    IF f_score > STRONG_THRESHOLD THEN "Strong"
    ELSE IF f_score > WEAK_THRESHOLD THEN "Moderate"
    ELSE "Weak"

get_interpretation(f_score) ==
    IF f_score >= STRONG_THRESHOLD THEN "Strong"
    ELSE IF f_score > WEAK_THRESHOLD THEN "Moderate"
    ELSE "Weak"

score_to_risk(f_score) == RClamp(RSub(One, R(f_score, 9)), Zero, One)

\* a criterion's 0 or 1
Bit(b) == IF b THEN 1 ELSE 0

Piotroski_calculate(current, prior) ==
    LET roa_positive == check_roa_positive(current)
        cfo_positive == check_cfo_positive(current)
        roa_increasing == check_roa_increasing(current, prior)
        cfo_greater_than_ni == check_quality_of_earnings(current)
        leverage_decreasing == check_leverage_decreasing(current, prior)
        current_ratio_increasing == check_liquidity_increasing(current, prior)
        no_dilution == check_no_dilution(current, prior)
        gross_margin_increasing == check_gross_margin_increasing(current, prior)
        asset_turnover_increasing == check_asset_turnover_increasing(current, prior)
        f_score == Bit(roa_positive) + Bit(cfo_positive) + Bit(roa_increasing)
                   + Bit(cfo_greater_than_ni) + Bit(leverage_decreasing)
                   + Bit(current_ratio_increasing) + Bit(no_dilution)
                   + Bit(gross_margin_increasing) + Bit(asset_turnover_increasing)
    IN  [f_score |-> f_score,
         roa_positive |-> roa_positive, cfo_positive |-> cfo_positive,
         roa_increasing |-> roa_increasing, cfo_greater_than_ni |-> cfo_greater_than_ni,
         leverage_decreasing |-> leverage_decreasing,
         current_ratio_increasing |-> current_ratio_increasing,
         no_dilution |-> no_dilution,
         gross_margin_increasing |-> gross_margin_increasing,
         asset_turnover_increasing |-> asset_turnover_increasing,
         risk_score |-> score_to_risk(f_score),
         interpretation |-> get_interpretation(f_score)]

\* ------------------------------------------------------------------------
\* Fraud Triangle (models/fraud_triangle.cpp).  financials is a sequence,
\* newest first; financials[1] is the code's financials[0].
\* ------------------------------------------------------------------------

normalize_score(raw_score, max_indicators) ==
    IF max_indicators <= 0 THEN Zero
    ELSE RClamp(R(raw_score, max_indicators), Zero, One)

check_declining_revenue(financials) ==
    IF Len(financials) < 2 THEN FALSE
    ELSE LET declining_periods == Cardinality({i \in 2..Len(financials) :
                 RLt(financials[i].income_statement.revenue,
                     financials[i - 1].income_statement.revenue)})
         IN  declining_periods >= Len(financials) \div 2

check_declining_margins(financials) ==
    IF Len(financials) < 2 THEN FALSE
    ELSE LET declining_periods == Cardinality({i \in 2..Len(financials) :
                 RLt(gross_margin(financials[i].income_statement),
                     gross_margin(financials[i - 1].income_statement))})
         IN  declining_periods >= Len(financials) \div 2

check_high_leverage(data) == RGt(debt_ratio(data.balance_sheet), R(6, 10))

check_negative_cash_flow(data) == RLt(data.cash_flow.operating_cash_flow, Zero)

check_earnings_miss_pattern(financials) ==
    IF Len(financials) < 3 THEN FALSE
    ELSE LET near_misses == Cardinality({i \in 1..Len(financials) :
                 LET margin == net_margin(financials[i].income_statement)
                 IN  RGt(margin, Zero) /\ RLt(margin, R(2, 100))})
         IN  near_misses >= 2

detect_pressure_indicators(financials) ==
    IF Len(financials) = 0 THEN << >>
    ELSE LET i1 == PushIf(<< >>, check_declining_revenue(financials), "Declining revenue trend")
             i2 == PushIf(i1, check_declining_margins(financials), "Declining profit margins")
             i3 == PushIf(i2, check_high_leverage(financials[1]), "High leverage ratio")
             i4 == PushIf(i3, check_negative_cash_flow(financials[1]), "Negative operating cash flow")
             i5 == PushIf(i4, check_earnings_miss_pattern(financials), "Pattern of barely meeting earnings targets")
         IN  i5

calculate_pressure_score(financials) ==
    normalize_score(Len(detect_pressure_indicators(financials)), 5)

check_complex_structure(financials) ==
    IF Len(financials) = 0 THEN FALSE
    ELSE LET bs == financials[1].balance_sheet
         IN  IF RGt(bs.total_assets, Zero)
             THEN RGt(RDiv(RAdd(bs.goodwill, bs.intangible_assets), bs.total_assets), R(3, 10))
             ELSE FALSE

check_unusual_transactions(financials) ==
    IF Len(financials) < 2 THEN FALSE
    ELSE \E i \in 2..Len(financials) :
             LET cur == financials[i].balance_sheet
                 prv == financials[i - 1].balance_sheet
                 ar_change  == IF RGt(prv.accounts_receivable, Zero)
                               THEN RDiv(RSub(cur.accounts_receivable, prv.accounts_receivable),
                                         prv.accounts_receivable)
                               ELSE Zero
                 inv_change == IF RGt(prv.inventory, Zero)
                               THEN RDiv(RSub(cur.inventory, prv.inventory), prv.inventory)
                               ELSE Zero
             IN  RGt(ar_change, R(5, 10)) \/ RGt(inv_change, R(5, 10))

check_estimate_changes(financials) ==
    IF Len(financials) < 2 THEN FALSE
    ELSE \E i \in 2..Len(financials) :
             LET curr_depr_rate  == IF RGt(financials[i].balance_sheet.ppe, Zero)
                                    THEN RDiv(financials[i].income_statement.depreciation,
                                              financials[i].balance_sheet.ppe)
                                    ELSE Zero
                 prior_depr_rate == IF RGt(financials[i - 1].balance_sheet.ppe, Zero)
                                    THEN RDiv(financials[i - 1].income_statement.depreciation,
                                              financials[i - 1].balance_sheet.ppe)
                                    ELSE Zero
             IN  /\ RGt(prior_depr_rate, Zero)
                 /\ RGt(RDiv(RAbs(RSub(curr_depr_rate, prior_depr_rate)), prior_depr_rate), R(3, 10))

detect_opportunity_indicators(financials) ==
    LET i1 == PushIf(<< >>, check_complex_structure(financials), "Complex organizational structure (high intangibles)")
        i2 == PushIf(i1, check_unusual_transactions(financials), "Unusual changes in receivables or inventory")
        i3 == PushIf(i2, check_estimate_changes(financials), "Significant changes in accounting estimates")
    IN  i3

calculate_opportunity_score_of5(financials) ==
    normalize_score(Len(detect_opportunity_indicators(financials)), 5)

calculate_opportunity_score(financials) ==
    normalize_score(Len(detect_opportunity_indicators(financials)), 3)

check_aggressive_accounting(financials) ==
    IF Len(financials) = 0 THEN FALSE
    ELSE \E i \in 1..Len(financials) :
             /\ RGt(financials[i].income_statement.net_income, Zero)
             /\ RGt(financials[i].cash_flow.operating_cash_flow, Zero)
             /\ RGt(financials[i].income_statement.net_income,
                    RMul(financials[i].cash_flow.operating_cash_flow, R(15, 10)))

check_boundary_cases(financials) ==
    LET boundary_count == Cardinality({i \in 1..Len(financials) :
            LET margin == net_margin(financials[i].income_statement)
            IN  RGt(margin, Zero) /\ RLt(margin, R(1, 100))})
    IN  boundary_count >= 2

detect_rationalization_indicators(financials) ==
    LET i1 == PushIf(<< >>, check_aggressive_accounting(financials), "Aggressive accounting (income >> cash flow)")
        i2 == PushIf(i1, check_boundary_cases(financials), "Earnings consistently at boundary levels")
    IN  i2

calculate_rationalization_score(financials) ==
    normalize_score(Len(detect_rationalization_indicators(financials)), 2)

FraudTriangle_determine_risk_level(overall_score) ==
    IF RGe(overall_score, R(7, 10)) THEN "HIGH"
    ELSE IF RGe(overall_score, R(4, 10)) THEN "MODERATE"
    ELSE IF RGe(overall_score, R(2, 10)) THEN "ELEVATED"
    ELSE "LOW"

FraudTriangle_calculate(financials) ==
    LET pressure_score == calculate_pressure_score(financials)
        opportunity_score == calculate_opportunity_score(financials)
        rationalization_score == calculate_rationalization_score(financials)
        overall_risk == RAdd(RAdd(RMul(R(35, 100), pressure_score),
                                  RMul(R(35, 100), opportunity_score)),
                             RMul(R(30, 100), rationalization_score))
    IN  [pressure_score |-> pressure_score,
         opportunity_score |-> opportunity_score,
         rationalization_score |-> rationalization_score,
         overall_risk |-> overall_risk,
         risk_level |-> FraudTriangle_determine_risk_level(overall_risk),
         pressure_indicators |-> detect_pressure_indicators(financials),
         opportunity_indicators |-> detect_opportunity_indicators(financials),
         rationalization_indicators |-> detect_rationalization_indicators(financials)]

\* ------------------------------------------------------------------------
\* Benford's Law (models/benford.cpp).  A non-finite double is a record
\* with d = 0.
\* ------------------------------------------------------------------------

\* std::to_string of a small count
to_string(k) == << "0", "1", "2", "3", "4", "5", "6", "7", "8", "9" >>[k + 1]

EXPECTED ==
    << R(301, 1000), R(176, 1000), R(125, 1000), R(97, 1000), R(79, 1000),
       R(67, 1000), R(58, 1000), R(51, 1000), R(46, 1000) >>

isfinite(value) == value.d # 0

is_valid_value_nonzero(value) == isfinite(value) /\ value.n # 0

is_valid_value(value) == isfinite(value) /\ RGe(RAbs(value), One)

\* while (value >= 10.0) value /= 10.0;
RECURSIVE ScaleDown(_)
ScaleDown(value) == IF RGe(value, I(10)) THEN ScaleDown(RDiv(value, I(10))) ELSE value

\* while (value < 1.0) value *= 10.0;
RECURSIVE ScaleUp(_)
ScaleUp(value) == IF RLt(value, One) THEN ScaleUp(RMul(value, I(10))) ELSE value

\* static_cast<int>(value) for 0 <= value < 10
ToInt(value) == CHOOSE k \in 0..9 : RLe(I(k), value) /\ RLt(value, I(k + 1))

extract_first_digit(value) ==
    IF ~is_valid_value(value) THEN 0
    ELSE LET digit == ToInt(ScaleUp(ScaleDown(RAbs(value))))
         IN  IF digit >= 1 /\ digit <= 9 THEN digit ELSE 0

\* counts[digit - 1] of calculate_actual_distribution
DigitCount(values, digit) ==
    Cardinality({k \in 1..Len(values) : extract_first_digit(values[k]) = digit})

calculate_actual_distribution(values) ==
    LET total == Cardinality({k \in 1..Len(values) : extract_first_digit(values[k]) \in 1..9})
    IN  [i \in 1..9 |-> IF total > 0 THEN R(DigitCount(values, i), total) ELSE Zero]

\* a non-negative number cut to four decimals (long division, digit by digit)
RECURSIVE LongDiv(_, _, _, _)
LongDiv(r, d, k, acc) ==
    IF k = 0 THEN acc
    ELSE LongDiv((r * 10) % d, d, k - 1, acc * 10 + ((r * 10) \div d))

Cut4(x) == R((x.n \div x.d) * 10000 + LongDiv(x.n % x.d, x.d, 4, 0), 10000)

RECURSIVE RSum(_, _)
RSum(f, k) == IF k = 0 THEN Zero ELSE RAdd(RSum(f, k - 1), f[k])

\* The sum of the nine terms is not a fraction of small terms: each term is
\* cut to four decimals before it is added (the code rounds in double).
calculate_chi_square(expected, actual, n) ==
    LET term(i) == LET exp_count == RMul(expected[i], I(n))
                       act_count == RMul(actual[i], I(n))
                       diff      == RSub(act_count, exp_count)
                   IN  IF RGt(exp_count, Zero)
                       THEN Cut4(RDiv(RMul(diff, diff), exp_count))
                       ELSE Zero
    IN  RSum([i \in 1..9 |-> term(i)], 9)

calculate_mad_signed(expected, actual) ==
    RDiv(RSum([i \in 1..9 |-> RSub(actual[i], expected[i])], 9), I(9))

calculate_mad(expected, actual) ==
    RDiv(RSum([i \in 1..9 |-> RAbs(RSub(actual[i], expected[i]))], 9), I(9))

RECURSIVE SelectDigits(_, _)
SelectDigits(hit, k) ==
    IF k = 0 THEN << >>
    ELSE PushIf(SelectDigits(hit, k - 1), hit[k], k)

\* z = |p_hat - p| / sqrt(p (1 - p) / n) > 2.576, decided on the squares:
\* (p_hat - p)^2 n / (p (1 - p)) > 2.576^2
identify_suspicious_digits(expected, actual, n) ==
    LET hit(i) == LET p     == expected[i]
                      p_hat == actual[i]
                      var   == RMul(p, RSub(One, p))
                      d     == RSub(p_hat, p)
                  IN  /\ n > 0
                      /\ RGt(var, Zero)
                      /\ RGt(RDiv(RMul(RMul(d, d), I(n)), var), R(6635776, 1000000))
    IN  SelectDigits([i \in 1..9 |-> hit(i)], 9)

MAD_CLOSE_CONFORMITY == R(6, 1000)

MAD_ACCEPTABLE == R(12, 1000)

MAD_MARGINALLY_ACCEPTABLE == R(15, 1000)

is_suspicious_above_2_percent(mad) == RGt(mad, R(2, 100))

is_suspicious(mad) == RGt(mad, MAD_MARGINALLY_ACCEPTABLE)

get_conformity_level(mad) ==
    IF RLe(mad, MAD_CLOSE_CONFORMITY) THEN "Close Conformity"
    ELSE IF RLe(mad, MAD_ACCEPTABLE) THEN "Acceptable Conformity"
    ELSE IF RLe(mad, MAD_MARGINALLY_ACCEPTABLE) THEN "Marginally Acceptable"
    ELSE "Nonconformity"

mad_to_risk(mad) == RClamp(RDiv(mad, R(2, 100)), Zero, One)

Benford_calculate(values) ==
    LET expected == EXPECTED
        actual   == calculate_actual_distribution(values)
        n        == Cardinality({k \in 1..Len(values) : is_valid_value(values[k])})
        mad      == IF n > 0 THEN calculate_mad(expected, actual) ELSE Zero
        digits   == IF n > 0 THEN identify_suspicious_digits(expected, actual, n) ELSE << >>
    IN  [expected_distribution |-> expected,
         actual_distribution |-> actual,
         chi_square |-> IF n > 0 THEN calculate_chi_square(expected, actual, n) ELSE Zero,
         mad |-> mad,
         deviation_percent |-> RMul(mad, I(100)),
         is_suspicious |-> is_suspicious(mad),
         anomalies |-> [k \in 1..Len(digits) |->
                          "Digit " \o to_string(digits[k]) \o " significantly deviates from expected"]]

\* ------------------------------------------------------------------------
\* FraudAnalyzer (analyzer.cpp).  A std::optional is a sequence of length
\* 0 (absent) or 1 (present).
\* ------------------------------------------------------------------------

None == << >>

Some(x) == << x >>

Has(o) == Len(o) = 1

Get(o) == o[1]

\* RiskWeights as declared (types.h)
DefaultWeights ==
    [beneish |-> R(30, 100), altman |-> R(25, 100), piotroski |-> R(15, 100),
     fraud_triangle |-> R(15, 100), benford |-> R(5, 100), red_flags |-> R(10, 100)]

\* the sum of the six weights, as RiskWeights::normalize adds them
weights_total(weights) ==
    RAdd(RAdd(RAdd(RAdd(RAdd(weights.beneish, weights.altman), weights.piotroski),
                   weights.fraud_triangle), weights.benford), weights.red_flags)

normalize_nonzero(weights) ==
    LET total == weights_total(weights)
    IN  IF total # Zero
        THEN [k \in DOMAIN weights |-> RDiv(weights[k], total)]
        ELSE weights

\* RiskWeights::normalize
normalize(weights) ==
    LET total == weights_total(weights)
    IN  IF RGt(total, Zero)
        THEN [k \in DOMAIN weights |-> RDiv(weights[k], total)]
        ELSE weights

\* TrendAnalysis as declared
DefaultTrends ==
    [revenue_trend |-> "STABLE", income_trend |-> "STABLE", cash_flow_trend |-> "STABLE",
     debt_trend |-> "STABLE", margin_trend |-> "STABLE", observations |-> << >>]

\* CompanyInfo as declared
DefaultCompany == [name |-> "", ticker |-> "", cik |-> "", sic |-> ""]

\* AnalysisResult as declared (a timestamp is a count of seconds, see
\* get_timestamp; -1 is the empty string of a result that was never stamped)
DefaultResult ==
    [company |-> DefaultCompany,
     filings_analyzed |-> 0,
     beneish |-> None, altman |-> None, piotroski |-> None,
     fraud_triangle |-> None, benford |-> None,
     filings |-> << >>,
     composite_risk_score |-> Zero,
     overall_risk_level |-> "LOW",
     risk_summary |-> "",
     recommendation |-> "",
     red_flags |-> << >>,
     trends |-> DefaultTrends,
     analysis_timestamp |-> -1,
     version |-> "2.1.2"]

calculate_composite_score_unclamped(result, weights) ==
    LET s1 == IF Has(result.beneish)
              THEN RMul(weights.beneish, Get(result.beneish).risk_score) ELSE Zero
        s2 == IF Has(result.altman)
              THEN RAdd(s1, RMul(weights.altman, Get(result.altman).risk_score)) ELSE s1
        s3 == IF Has(result.piotroski)
              THEN RAdd(s2, RMul(weights.piotroski, Get(result.piotroski).risk_score)) ELSE s2
        s4 == IF Has(result.fraud_triangle)
              THEN RAdd(s3, RMul(weights.fraud_triangle, Get(result.fraud_triangle).overall_risk)) ELSE s3
        s5 == IF Has(result.benford)
              THEN RAdd(s4, RMul(weights.benford,
                        IF Get(result.benford).is_suspicious THEN R(8, 10) ELSE R(2, 10)))
              ELSE s4
        flag_risk == RMin(One, R(Len(result.red_flags), 5))
    IN  RAdd(s5, RMul(weights.red_flags, flag_risk))

\* weights is the analyzer's weights_
calculate_composite_score(result, weights) ==
    LET s1 == IF Has(result.beneish)
              THEN RMul(weights.beneish, Get(result.beneish).risk_score) ELSE Zero
        s2 == IF Has(result.altman)
              THEN RAdd(s1, RMul(weights.altman, Get(result.altman).risk_score)) ELSE s1
        s3 == IF Has(result.piotroski)
              THEN RAdd(s2, RMul(weights.piotroski, Get(result.piotroski).risk_score)) ELSE s2
        s4 == IF Has(result.fraud_triangle)
              THEN RAdd(s3, RMul(weights.fraud_triangle, Get(result.fraud_triangle).overall_risk)) ELSE s3
        s5 == IF Has(result.benford)
              THEN RAdd(s4, RMul(weights.benford,
                        IF Get(result.benford).is_suspicious THEN R(8, 10) ELSE R(2, 10)))
              ELSE s4
        flag_risk == RMin(One, R(Len(result.red_flags), 5))
        score == RAdd(s5, RMul(weights.red_flags, flag_risk))
    IN  RMin(One, RMax(Zero, score))

determine_risk_level_swapped(score) ==
    IF RGe(score, R(8, 10)) THEN "CRITICAL"
    ELSE IF RGe(score, R(6, 10)) THEN "ELEVATED"
    ELSE IF RGe(score, R(4, 10)) THEN "HIGH"
    ELSE IF RGe(score, R(2, 10)) THEN "MODERATE"
    ELSE "LOW"

determine_risk_level(score) ==
    IF RGe(score, R(8, 10)) THEN "CRITICAL"
    ELSE IF RGe(score, R(6, 10)) THEN "HIGH"
    ELSE IF RGe(score, R(4, 10)) THEN "ELEVATED"
    ELSE IF RGe(score, R(2, 10)) THEN "MODERATE"
    ELSE "LOW"

generate_recommendation(result) ==
    CASE result.overall_risk_level = "CRITICAL" ->
           "CRITICAL RISK: Multiple fraud indicators detected. Recommend immediate detailed investigation."
      [] result.overall_risk_level = "HIGH" ->
           "HIGH RISK: Significant fraud indicators present. Exercise extreme caution and conduct thorough due diligence."
      [] result.overall_risk_level = "ELEVATED" ->
           "ELEVATED RISK: Some concerning indicators detected. Recommend additional scrutiny of financial statements."
      [] result.overall_risk_level = "MODERATE" ->
           "MODERATE RISK: Minor concerns noted. Standard due diligence procedures recommended."
      [] OTHER ->
           "LOW RISK: No significant fraud indicators detected. Financial statements appear consistent with expected patterns."

RedFlag(type, title, description, severity, source, confidence) ==
    [type |-> type, title |-> title, description |-> description,
     severity |-> severity, source |-> source, confidence |-> confidence]

detect_red_flags_le(result) ==
    LET f1 == PushIf(<< >>, Has(result.beneish) /\ Get(result.beneish).likely_manipulator,
                  RedFlag("EARNINGS_MANIPULATION", "Beneish M-Score Above Threshold",
                          "M-Score indicates potential earnings manipulation",
                          "HIGH", "Beneish Model", R(90, 100)))
        f2 == PushIf(f1, Has(result.altman) /\ RLe(Get(result.altman).z_score, R(181, 100)),
                  RedFlag("BANKRUPTCY_RISK", "Altman Z-Score in Distress Zone",
                          "High probability of bankruptcy within 2 years",
                          "HIGH", "Altman Model", R(85, 100)))
        f3 == PushIf(f2, Has(result.piotroski) /\ Get(result.piotroski).f_score <= 3,
                  RedFlag("WEAK_FUNDAMENTALS", "Low Piotroski F-Score",
                          "Financial fundamentals indicate weakness",
                          "ELEVATED", "Piotroski Model", R(70, 100)))
        f4 == PushIf(f3, Has(result.fraud_triangle) /\ RGt(Get(result.fraud_triangle).overall_risk, R(6, 10)),
                  RedFlag("FRAUD_TRIANGLE", "High Fraud Triangle Risk",
                          "Multiple fraud risk factors detected",
                          "HIGH", "Fraud Triangle Model", R(80, 100)))
        f5 == PushIf(f4, Has(result.benford) /\ Get(result.benford).is_suspicious,
                  RedFlag("BENFORD_ANOMALY", "Benford's Law Deviation",
                          "Unusual digit distribution in financial figures",
                          "ELEVATED", "Benford Model", R(65, 100)))
    IN  f5

detect_red_flags(result) ==
    LET f1 == PushIf(<< >>, Has(result.beneish) /\ Get(result.beneish).likely_manipulator,
                  RedFlag("EARNINGS_MANIPULATION", "Beneish M-Score Above Threshold",
                          "M-Score indicates potential earnings manipulation",
                          "HIGH", "Beneish Model", R(90, 100)))
        f2 == PushIf(f1, Has(result.altman) /\ RLt(Get(result.altman).z_score, R(181, 100)),
                  RedFlag("BANKRUPTCY_RISK", "Altman Z-Score in Distress Zone",
                          "High probability of bankruptcy within 2 years",
                          "HIGH", "Altman Model", R(85, 100)))
        f3 == PushIf(f2, Has(result.piotroski) /\ Get(result.piotroski).f_score <= 3,
                  RedFlag("WEAK_FUNDAMENTALS", "Low Piotroski F-Score",
                          "Financial fundamentals indicate weakness",
                          "ELEVATED", "Piotroski Model", R(70, 100)))
        f4 == PushIf(f3, Has(result.fraud_triangle) /\ RGt(Get(result.fraud_triangle).overall_risk, R(6, 10)),
                  RedFlag("FRAUD_TRIANGLE", "High Fraud Triangle Risk",
                          "Multiple fraud risk factors detected",
                          "HIGH", "Fraud Triangle Model", R(80, 100)))
        f5 == PushIf(f4, Has(result.benford) /\ Get(result.benford).is_suspicious,
                  RedFlag("BENFORD_ANOMALY", "Benford's Law Deviation",
                          "Unusual digit distribution in financial figures",
                          "ELEVATED", "Benford Model", R(65, 100)))
    IN  f5

\* one metric of analyze_trends: recent against prior
TrendOf(recent, prior) ==
    IF RGt(recent, RMul(prior, R(105, 100))) THEN "IMPROVING"
    ELSE IF RLt(recent, RMul(prior, R(95, 100))) THEN "DECLINING"
    ELSE "STABLE"

analyze_trends(financials) ==
    IF Len(financials) < 2 THEN DefaultTrends
    ELSE LET recent == financials[1]
             prior  == financials[Len(financials)]
         IN  [DefaultTrends EXCEPT
                 !.revenue_trend = TrendOf(recent.income_statement.revenue,
                                           prior.income_statement.revenue),
                 !.income_trend  = TrendOf(recent.income_statement.net_income,
                                           prior.income_statement.net_income)]

RECURSIVE extract_all_values(_)
extract_all_values(financials) ==
    IF Len(financials) = 0 THEN << >>
    ELSE LET f == Head(financials)
         IN  << f.income_statement.revenue,
                f.income_statement.net_income,
                f.balance_sheet.total_assets,
                f.balance_sheet.total_liabilities,
                f.cash_flow.operating_cash_flow >> \o extract_all_values(Tail(financials))

\* util::get_timestamp: the clock read to the second (the code formats that
\* second as text).  The model's clock counts ticks of 1 / TicksPerSecond s.
TicksPerSecond == 2

get_timestamp(now) == now \div TicksPerSecond

\* ------------------------------------------------------------------------
\* Inputs
\* ------------------------------------------------------------------------

BalanceSheet(ta, ca, ar, inv, ppe, gw, ia, tl, cl, ltd, eq, re, sh) ==
    [total_assets |-> I(ta), current_assets |-> I(ca), accounts_receivable |-> I(ar),
     inventory |-> I(inv), ppe |-> I(ppe), goodwill |-> I(gw), intangible_assets |-> I(ia),
     total_liabilities |-> I(tl), current_liabilities |-> I(cl), long_term_debt |-> I(ltd),
     total_equity |-> I(eq), retained_earnings |-> I(re), shares_outstanding |-> I(sh)]

IncomeStatement(rev, gp, sga, dep, oi, ni) ==
    [revenue |-> I(rev), gross_profit |-> I(gp), sga_expense |-> I(sga),
     depreciation |-> I(dep), operating_income |-> I(oi), net_income |-> I(ni)]

CashFlowStatement(ocf) == [operating_cash_flow |-> I(ocf)]

\* a filer in good shape (the figures of the spec's scenarios)
SnapshotSound ==
    [balance_sheet |-> BalanceSheet(1000, 600, 100, 80, 300, 50, 50, 500, 400, 100, 500, 200, 100),
     income_statement |-> IncomeStatement(900, 360, 90, 30, 150, 100),
     cash_flow |-> CashFlowStatement(80),
     is_valid |-> TRUE]

\* a filer in distress: losses, negative cash flow, high leverage
SnapshotDistressed ==
    [balance_sheet |-> BalanceSheet(1000, 200, 200, 150, 300, 200, 200, 900, 400, 500, 100, -100, 120),
     income_statement |-> IncomeStatement(600, 120, 120, 20, -50, -80),
     cash_flow |-> CashFlowStatement(-40),
     is_valid |-> TRUE]

\* what SECFetcher::get_financial_data returns when the facts cannot be
\* fetched: a zero-filled record with is_valid = false
SnapshotInvalid ==
    [balance_sheet |-> BalanceSheet(0, 0, 0, 0, 0, 0, 0, 0, 0, 0, 0, 0, 0),
     income_statement |-> IncomeStatement(0, 0, 0, 0, 0, 0),
     cash_flow |-> CashFlowStatement(0),
     is_valid |-> FALSE]

Snapshots == {SnapshotSound, SnapshotDistressed, SnapshotInvalid}

RECURSIVE SeqsOfLen(_, _)
SeqsOfLen(S, n) ==
    IF n = 0 THEN {<< >>}
    ELSE {Append(q, x) : q \in SeqsOfLen(S, n - 1), x \in S}

\* the longest snapshot sequence handed to an analysis
MaxSnapshots == 3

Financials == UNION {SeqsOfLen(Snapshots, n) : n \in 0..MaxSnapshots}

Companies ==
    {[name |-> "Acme Corp", ticker |-> "ACME", cik |-> "0000000001", sic |-> "3570"]}

\* weights that sum to 1 (the defaults) and weights that sum to more than 1
HeavyWeights ==
    [beneish |-> I(1), altman |-> I(1), piotroski |-> I(1),
     fraud_triangle |-> I(1), benford |-> I(1), red_flags |-> I(1)]

WeightChoices == {DefaultWeights, HeavyWeights}

\* the clock stops advancing after this many ticks
MaxClock == 2

\* ------------------------------------------------------------------------
\* The analyzer as an object: its fields, and the calls made on it
\* ------------------------------------------------------------------------

VARIABLES
    weights_,       \* FraudAnalyzer::weights_
    last_error_,    \* FraudAnalyzer::last_error_
    clock,          \* system_clock, in ticks
    last_call,      \* the latest analyze_financials call: its arguments, and the
                    \* weights and the timestamp it read
    prev_call,      \* the call before it, kept when it had the same arguments and weights
    calls,          \* the analyze_financials calls in flight on concurrent threads
    arguments,      \* the arguments of a function applied on its own
    outcome,        \* what that function returned (empty until it is applied)
    entries_,       \* Cache<T>::entries_
    ttl_seconds_,   \* Cache<T>::ttl_seconds_
    mutex_,         \* Cache<T>::mutex_: the thread holding it, 0 when free
    running,        \* the Cache<T> method each thread is in, and where in it
    written,        \* per key, the latest set() not followed by remove() or clear()
    handlers_,      \* HttpServer::handlers_: the (method, path) keys that have a handler
    handlers_mutex_,\* HttpServer::handlers_mutex_: the thread holding it, "" when free
    running_,       \* HttpServer::running_
    cors_enabled_,  \* HttpServer::cors_enabled_
    connections,    \* the client threads of accept_connections: where each is in handle_client
    registration    \* the thread that registers routes: where it is in route()

\* the fields of the cache and the bookkeeping of its callers
cache_vars == << entries_, ttl_seconds_, mutex_, running, written >>

\* the fields of the HTTP server and the threads running in it
server_vars == << handlers_, handlers_mutex_, running_, cors_enabled_, connections, registration >>

vars == << weights_, last_error_, clock, last_call, prev_call, calls, arguments, outcome,
           cache_vars, server_vars >>

\* the cache's keys, the threads calling it, and the TTL it is built with
Keys == {"AAPL"}

CacheThreads == {1, 2}

InitialTtl == 1

\* a thread outside every method of the cache
Idle == [pc |-> "idle"]

\* the cache as constructed (Cache(int ttl_seconds)), nobody calling it
CacheUntouched ==
    /\ entries_ = [k \in Keys |-> None]
    /\ ttl_seconds_ = InitialTtl
    /\ mutex_ = 0
    /\ running = [t \in CacheThreads |-> Idle]
    /\ written = [k \in Keys |-> None]

\* the client threads the server runs at once, and the thread of main()
ClientThreads == {"client 1", "client 2"}

MainThread == "main"

\* the HTTP server as constructed (HttpServer()): no route, not started, no
\* connection
ServerUntouched ==
    /\ handlers_ = {}
    /\ handlers_mutex_ = ""
    /\ running_ = FALSE
    /\ cors_enabled_ = TRUE
    /\ connections = [t \in ClientThreads |-> Idle]
    /\ registration = Idle

\* no concurrent call in flight, no function applied on its own
NoCalls == << >>

NoApplication ==
    /\ arguments = << >>
    /\ outcome = << >>

has_error == last_error_ # ""

\* the model results, red flags and trends of analyze_financials (the part
\* of its result that depends on the snapshot sequence alone)
run_models(financials) ==
    IF Len(financials) < 2 THEN DefaultResult
    ELSE LET r1 == [DefaultResult EXCEPT
                       !.beneish = Some(Beneish_calculate(financials[1], financials[2])),
                       !.altman = Some(Altman_calculate(financials[1], Zero)),
                       !.piotroski = Some(Piotroski_calculate(financials[1], financials[2])),
                       !.fraud_triangle = Some(FraudTriangle_calculate(financials)),
                       !.benford = Some(Benford_calculate(extract_all_values(financials)))]
         IN  [r1 EXCEPT !.red_flags = detect_red_flags(r1),
                        !.trends = analyze_trends(financials)]

\* run_models, computed once for every input of the model
ModelRuns == [f \in Financials |-> run_models(f)] @@ << >>

\* the record analyze_financials returns
analysis_result(financials, company, weights, timestamp) ==
    LET m  == ModelRuns[financials]
        r0 == [m EXCEPT
                  !.company = company,
                  !.filings = financials,
                  !.filings_analyzed = Len(financials),
                  !.analysis_timestamp = timestamp]
    IN  IF Len(financials) < 2 THEN r0
        ELSE LET r3 == [r0 EXCEPT !.composite_risk_score = calculate_composite_score(r0, weights)]
                 r4 == [r3 EXCEPT !.overall_risk_level = determine_risk_level(r3.composite_risk_score)]
             IN  [r4 EXCEPT
                     !.recommendation = generate_recommendation(r4),
                     !.risk_summary = "Analysis complete with " \o to_string(Len(r4.red_flags))
                                      \o " red flags detected."]

analysis_error_unset(financials, error) == error

\* last_error_ after analyze_financials
analysis_error(financials, error) ==
    IF Len(financials) < 2 THEN "Insufficient financial data for analysis" ELSE error

returned_stamped(call) ==
    LET r == analysis_result(call.financials, call.company, call.weights, call.timestamp)
    IN  [r EXCEPT !.risk_summary = r.risk_summary \o " " \o to_string(call.timestamp)]

\* what a call returned to its caller
returned(call) ==
    analysis_result(call.financials, call.company, call.weights, call.timestamp)

Init ==
    /\ weights_ \in WeightChoices
    /\ last_error_ = ""
    /\ clock = 0
    /\ last_call = None
    /\ prev_call = None
    /\ calls = NoCalls
    /\ NoApplication
    /\ CacheUntouched
    /\ ServerUntouched

set_weights(weights) ==
    /\ weights_' = weights
    /\ UNCHANGED << last_error_, clock, last_call, prev_call, calls, arguments, outcome, cache_vars, server_vars >>

analyze_financials(financials, company) ==
    LET call == [financials |-> financials, company |-> company, weights |-> weights_,
                 timestamp |-> get_timestamp(clock)]
        same(c) == /\ c.financials = financials
                   /\ c.company = company
                   /\ c.weights = weights_
    IN  /\ last_error_' = analysis_error(financials, last_error_)
        /\ last_call' = Some(call)
        /\ prev_call' = IF Has(last_call) /\ same(Get(last_call)) THEN last_call ELSE None
        /\ UNCHANGED << weights_, clock, calls, arguments, outcome, cache_vars, server_vars >>

Tick ==
    /\ clock < MaxClock
    /\ clock' = clock + 1
    /\ UNCHANGED << weights_, last_error_, last_call, prev_call, calls, arguments, outcome, cache_vars, server_vars >>

Next ==
    \/ \E w \in WeightChoices : set_weights(w)
    \/ \E f \in Financials, c \in Companies : analyze_financials(f, c)
    \/ Tick

Spec == Init /\ [][Next]_vars

\* ------------------------------------------------------------------------
\* Two threads calling analyze_financials on one analyzer.  The analyzer
\* takes no lock: last_error_ is written by a failing call and read by
\* has_error() with nothing ordering the two, so a read that overlaps a
\* write sees the string before or after it.
\* ------------------------------------------------------------------------

Threads == {1, 2}

\* the other thread
Other(t) == 3 - t

\* the sequences the two threads analyze
ConcurrentInputs == {f \in Financials : Len(f) <= 2}

\* a thread about to call: status is what its has_error() will have read
NewCall(financials) == [pc |-> "call", financials |-> financials, status |-> FALSE]

InitConcurrent ==
    /\ weights_ = DefaultWeights
    /\ last_error_ = ""
    /\ clock = 0
    /\ last_call = None
    /\ prev_call = None
    /\ calls \in [Threads -> {NewCall(f) : f \in ConcurrentInputs}]
    /\ NoApplication
    /\ CacheUntouched
    /\ ServerUntouched

\* analyze_financials up to its size check
Enter(t) ==
    /\ calls[t].pc = "call"
    /\ calls' = [calls EXCEPT ![t].pc = IF Len(calls[t].financials) < 2
                                        THEN "assign_error" ELSE "run_models"]
    /\ UNCHANGED << weights_, last_error_, clock, last_call, prev_call, arguments, outcome, cache_vars, server_vars >>

\* last_error_ = "Insufficient ...": the assignment begins
BeginAssign(t) ==
    /\ calls[t].pc = "assign_error"
    /\ calls' = [calls EXCEPT ![t].pc = "assigning"]
    /\ UNCHANGED << weights_, last_error_, clock, last_call, prev_call, arguments, outcome, cache_vars, server_vars >>

\* the assignment ends, and the call returns
EndAssign(t) ==
    /\ calls[t].pc = "assigning"
    /\ last_error_' = analysis_error(calls[t].financials, last_error_)
    /\ calls' = [calls EXCEPT ![t].pc = "returned"]
    /\ UNCHANGED << weights_, clock, last_call, prev_call, arguments, outcome, cache_vars, server_vars >>

\* the models, the flags and the score of a call with enough snapshots:
\* nothing of the analyzer is written, and the call returns
RunModels(t) ==
    /\ calls[t].pc = "run_models"
    /\ calls' = [calls EXCEPT ![t].pc = "returned"]
    /\ UNCHANGED << weights_, last_error_, clock, last_call, prev_call, arguments, outcome, cache_vars, server_vars >>

\* the caller asks has_error() after its call
ReadStatus(t) ==
    /\ calls[t].pc = "returned"
    /\ \E seen \in {has_error} \cup (IF calls[Other(t)].pc = "assigning" THEN {TRUE} ELSE {}) :
         calls' = [calls EXCEPT ![t].pc = "done", ![t].status = seen]
    /\ UNCHANGED << weights_, last_error_, clock, last_call, prev_call, arguments, outcome, cache_vars, server_vars >>

NextConcurrent ==
    \/ \E t \in Threads : Enter(t)
    \/ \E t \in Threads : BeginAssign(t)
    \/ \E t \in Threads : EndAssign(t)
    \/ \E t \in Threads : RunModels(t)
    \/ \E t \in Threads : ReadStatus(t)

SpecConcurrent == InitConcurrent /\ [][NextConcurrent]_vars

\* ------------------------------------------------------------------------
\* The aggregator's functions applied on their own: the arguments are drawn
\* at the start, the one step applies the function to them
\* ------------------------------------------------------------------------

\* an analyzer as constructed, that takes no analyze_financials call
Untouched ==
    /\ weights_ = DefaultWeights
    /\ last_error_ = ""
    /\ clock = 0
    /\ last_call = None
    /\ prev_call = None
    /\ calls = NoCalls
    /\ CacheUntouched
    /\ ServerUntouched

Apply(results) ==
    /\ outcome = << >>
    /\ outcome' = results
    /\ UNCHANGED << weights_, last_error_, clock, last_call, prev_call, calls, arguments, cache_vars, server_vars >>

\* model results as far as calculate_composite_score reads them
RiskValues == {Zero, R(1, 2), One}

ScoredResults == {None} \cup {Some([risk_score |-> x]) : x \in RiskValues}

TriangleResults == {None} \cup {Some([overall_risk |-> x]) : x \in RiskValues}

BenfordResults == {None} \cup {Some([is_suspicious |-> b]) : b \in BOOLEAN}

\* the longest list of red flags handed to calculate_composite_score
MaxFlags == 6

FlagLists ==
    {[k \in 1..n |-> RedFlag("BENFORD_ANOMALY", "Benford's Law Deviation",
                             "Unusual digit distribution in financial figures",
                             "ELEVATED", "Benford Model", R(65, 100))] : n \in 0..MaxFlags}

ZeroWeights ==
    [beneish |-> Zero, altman |-> Zero, piotroski |-> Zero,
     fraud_triangle |-> Zero, benford |-> Zero, red_flags |-> Zero]

\* weights that sum to 0, to 1, to 6 and to 3.5
AnyWeights ==
    {ZeroWeights, DefaultWeights, HeavyWeights,
     [HeavyWeights EXCEPT !.beneish = R(1, 4), !.altman = R(1, 4), !.red_flags = Zero]}

InitComposite ==
    /\ Untouched
    /\ arguments \in
         {<< [DefaultResult EXCEPT !.beneish = b, !.altman = a, !.piotroski = p,
                                   !.fraud_triangle = t, !.benford = d, !.red_flags = fl], w >> :
            b \in ScoredResults, a \in ScoredResults, p \in ScoredResults,
            t \in TriangleResults, d \in BenfordResults, fl \in FlagLists, w \in AnyWeights}
    /\ outcome = << >>

ApplyComposite == Apply(<< calculate_composite_score(arguments[1], arguments[2]) >>)

SpecComposite == InitComposite /\ [][ApplyComposite]_vars

\* the scores k / ScoreSteps of [0,1]
ScoreSteps == 20

Scores == {R(k, ScoreSteps) : k \in 0..ScoreSteps}

InitRiskLevel ==
    /\ Untouched
    /\ arguments \in Scores \X Scores
    /\ outcome = << >>

ApplyRiskLevel ==
    Apply(<< determine_risk_level(arguments[1]), determine_risk_level(arguments[2]) >>)

SpecRiskLevel == InitRiskLevel /\ [][ApplyRiskLevel]_vars

\* model results as far as detect_red_flags reads them
BeneishVerdicts == {None} \cup {Some([likely_manipulator |-> b]) : b \in BOOLEAN}

AltmanScores == {None} \cup {Some([z_score |-> z]) : z \in {I(-1), R(180, 100), R(181, 100), R(182, 100)}}

PiotroskiScores == {None} \cup {Some([f_score |-> f]) : f \in {0, 3, 4, 9}}

TriangleRisks == {None} \cup {Some([overall_risk |-> x]) : x \in {R(6, 10), R(61, 100), One}}

InitRedFlags ==
    /\ Untouched
    /\ arguments \in
         {<< [DefaultResult EXCEPT !.beneish = b, !.altman = a, !.piotroski = p,
                                   !.fraud_triangle = t, !.benford = d] >> :
            b \in BeneishVerdicts, a \in AltmanScores, p \in PiotroskiScores,
            t \in TriangleRisks, d \in BenfordResults}
    /\ outcome = << >>

ApplyRedFlags == Apply(<< detect_red_flags(arguments[1]) >>)

SpecRedFlags == InitRedFlags /\ [][ApplyRedFlags]_vars

\* numerators, and denominators on both sides of zero: zero, within 1e-10
\* of it, exactly 1e-10 away and further
Numerators == {Zero, One, I(-3), R(1, 2), Num(5, 1, -11)}

Denominators ==
    {Zero, Num(1, 1, -12), Num(9, 1, -11), Num(-9, 1, -11), EPSILON, RNeg(EPSILON),
     Num(11, 1, -11), Num(-11, 1, -11), R(1, 3), I(2), I(-2)}

Defaults == {One, Zero, I(-1)}

\* a snapshot whose ratios of roa, leverage, current ratio and gross margin
\* are num / denom
RatioData(num, denom) ==
    [SnapshotSound EXCEPT
        !.income_statement.net_income = num,
        !.balance_sheet.long_term_debt = num,
        !.balance_sheet.current_assets = num,
        !.income_statement.gross_profit = num,
        !.balance_sheet.total_assets = denom,
        !.balance_sheet.current_liabilities = denom,
        !.income_statement.revenue = denom]

\* a snapshot whose asset turnover is num / denom
TurnoverData(num, denom) ==
    [SnapshotSound EXCEPT
        !.income_statement.revenue = num,
        !.balance_sheet.total_assets = denom]

InitDivide ==
    /\ Untouched
    /\ arguments \in Numerators \X Denominators \X Defaults
    /\ outcome = << >>

\* Altman's and Piotroski's helpers are applied with their declared defaults
ApplyDivide ==
    LET num   == arguments[1]
        denom == arguments[2]
    IN  Apply(<< Beneish_safe_divide(num, denom, arguments[3]),
                 Altman_safe_divide(num, denom, Zero),
                 calculate_roa(RatioData(num, denom)),
                 calculate_leverage(RatioData(num, denom)),
                 calculate_current_ratio(RatioData(num, denom)),
                 calculate_gross_margin(RatioData(num, denom)),
                 calculate_asset_turnover(TurnoverData(num, denom)) >>)

SpecDivide == InitDivide /\ [][ApplyDivide]_vars

\* snapshots around the spec's Altman scenario (SnapshotSound): with the
\* other figures of the scenario a revenue of 1375 gives Z = 2.99 and a
\* revenue of 195 gives Z = 1.81
AltmanData ==
    {[SnapshotSound EXCEPT
         !.balance_sheet.total_assets = I(ta),
         !.balance_sheet.retained_earnings = I(re),
         !.income_statement.operating_income = I(oi),
         !.balance_sheet.total_liabilities = I(tl),
         !.income_statement.revenue = I(rev)] :
       ta \in {0, 1000}, re \in {200, -100}, oi \in {150, -50}, tl \in {0, 500},
       rev \in {0, 195, 196, 900, 1375, 1376}}

MarketCaps == {Zero, I(-100), I(800)}

InitAltman ==
    /\ Untouched
    /\ arguments \in AltmanData \X MarketCaps
    /\ outcome = << >>

ApplyAltman == Apply(<< Altman_calculate(arguments[1], arguments[2]) >>)

SpecAltman == InitAltman /\ [][ApplyAltman]_vars

\* ------------------------------------------------------------------------
\* BeneishModel::calculate applied on its own to a pair of snapshots
\* ------------------------------------------------------------------------

\* the prior period of the Beneish inputs: every index is 1 against a
\* current period with the same figures
BeneishPrior ==
    [balance_sheet |-> BalanceSheet(2000, 800, 200, 80, 200, 50, 50, 1000, 400, 100, 1000, 200, 100),
     income_statement |-> IncomeStatement(2000, 1193, 200, 50, 150, 0),
     cash_flow |-> CashFlowStatement(0),
     is_valid |-> TRUE]

BeneishCurrent(ar, gp, ca, rev, ni, tl) ==
    [BeneishPrior EXCEPT !.balance_sheet.accounts_receivable = I(ar),
                         !.income_statement.gross_profit = I(gp),
                         !.balance_sheet.current_assets = I(ca),
                         !.income_statement.revenue = I(rev),
                         !.income_statement.net_income = I(ni),
                         !.balance_sheet.total_liabilities = I(tl)]

\* one index at a time on its benchmark and just above it
BeneishOnBenchmarks ==
    {BeneishCurrent(ar, 1193, 800, 2000, 0, 1000) : ar \in {200, 293, 294}}
    \cup {BeneishCurrent(200, gp, 800, 2000, 0, 1000) : gp \in {1000, 999}}
    \cup {BeneishCurrent(200, 1193, ca, 2000, 0, 1000) : ca \in {546, 545}}
    \cup {BeneishCurrent(200, 1193, 800, rev, 0, 1000) : rev \in {3214, 3215}}
    \cup {BeneishCurrent(200, 1193, 800, 2000, ni, 1000) : ni \in {36, 37}}
    \cup {BeneishCurrent(200, 1193, 800, 2000, 0, tl) : tl \in {1111, 1112}}

\* every combination of indices left alone or moved well away
BeneishCombined ==
    {BeneishCurrent(ar, gp, ca, rev, ni, tl) :
        ar \in {200, 800}, gp \in {1193, 500}, ca \in {800, 300},
        rev \in {2000, 4000}, ni \in {0, 100}, tl \in {1000, 1500}}

\* a current period whose indices are all 1 against an empty prior period,
\* so that the M-Score is -2.48 + accruals / 1000
BeneishByScore(accruals) ==
    [SnapshotInvalid EXCEPT !.balance_sheet.total_assets = I(4679),
                            !.balance_sheet.total_liabilities = I(4679),
                            !.income_statement.net_income = I(accruals),
                            !.is_valid = TRUE]

BeneishOnThresholds ==
    {BeneishByScore(a) : a \in {-21, -20, -19, 259, 260, 261, 699, 700, 701}}

BeneishPairs ==
    ((BeneishOnBenchmarks \cup BeneishCombined) \X {BeneishPrior})
    \cup (BeneishOnThresholds \X {SnapshotInvalid})
    \cup ({SnapshotSound, SnapshotDistressed} \X {SnapshotSound, SnapshotDistressed})

InitBeneish ==
    /\ Untouched
    /\ arguments \in BeneishPairs
    /\ outcome = << >>

ApplyBeneish == Apply(<< Beneish_calculate(arguments[1], arguments[2]) >>)

SpecBeneish == InitBeneish /\ [][ApplyBeneish]_vars

\* ------------------------------------------------------------------------
\* PiotroskiModel::calculate applied on its own to a pair of snapshots
\* ------------------------------------------------------------------------

\* current periods against SnapshotSound as the prior period: each figure
\* below, at and above the prior period's
PiotroskiCurrent ==
    {[SnapshotSound EXCEPT !.income_statement.net_income = I(ni),
                           !.cash_flow.operating_cash_flow = I(ocf),
                           !.balance_sheet.long_term_debt = I(ltd),
                           !.balance_sheet.current_assets = I(ca),
                           !.balance_sheet.shares_outstanding = I(sh),
                           !.income_statement.gross_profit = I(gp),
                           !.income_statement.revenue = I(rev)] :
        ni \in {-50, 50, 150}, ocf \in {-60, 100, 200}, ltd \in {50, 100, 150},
        ca \in {500, 600, 700}, sh \in {90, 100, 110}, gp \in {350, 360, 450},
        rev \in {900, 1000}}

InitPiotroski ==
    /\ Untouched
    /\ arguments \in PiotroskiCurrent \X {SnapshotSound}
    /\ outcome = << >>

ApplyPiotroski == Apply(<< Piotroski_calculate(arguments[1], arguments[2]) >>)

SpecPiotroski == InitPiotroski /\ [][ApplyPiotroski]_vars

\* ------------------------------------------------------------------------
\* FraudAnalyzer::analyze_trends applied on its own to a snapshot sequence
\* ------------------------------------------------------------------------

\* snapshots whose revenue sits on and around the 5% bands against 100 and
\* whose net income is a loss, nothing or a profit
TrendSnapshots ==
    {[SnapshotSound EXCEPT !.income_statement.revenue = I(rev),
                           !.income_statement.net_income = I(ni)] :
        rev \in {0, 94, 95, 100, 105, 106}, ni \in {-100, 0, 100}}

TrendFinancials == UNION {SeqsOfLen(TrendSnapshots, n) : n \in 0..2}
    \cup {<< a, SnapshotDistressed, b >> : a, b \in TrendSnapshots}

InitTrends ==
    /\ Untouched
    /\ arguments \in TrendFinancials
    /\ outcome = << >>

ApplyTrends == Apply(<< analyze_trends(arguments) >>)

SpecTrends == InitTrends /\ [][ApplyTrends]_vars

\* ------------------------------------------------------------------------
\* FraudTriangleModel::calculate applied on its own to a snapshot sequence
\* ------------------------------------------------------------------------

\* snapshots that differ in revenue and in gross margin (0.32 to 0.5)
TriangleSnapshots ==
    {[SnapshotSound EXCEPT !.income_statement.revenue = I(rev),
                           !.income_statement.gross_profit = I(gp)] :
        rev \in {800, 900, 1000}, gp \in {320, 400}}

TriangleFinancials == UNION {SeqsOfLen(TriangleSnapshots, n) : n \in 0..MaxSnapshots}

InitTriangle ==
    /\ Untouched
    /\ arguments \in TriangleFinancials
    /\ outcome = << >>

ApplyTriangle == Apply(<< FraudTriangle_calculate(arguments) >>)

SpecTriangle == InitTriangle /\ [][ApplyTriangle]_vars

\* ------------------------------------------------------------------------
\* BenfordModel::calculate applied on its own to a list of values
\* ------------------------------------------------------------------------

\* a non-finite double
NotANumber == [n |-> 0, d |-> 0, e |-> 0]

\* values the model must ignore (zero, below one, non-finite) and values
\* it must count (first digits 2 and 9)
BenfordValues == {Zero, R(-1, 2), NotANumber, I(-250), R(999, 100)}

\* the longest list of values handed to BenfordModel::calculate
MaxValues == 4

BenfordLists == UNION {SeqsOfLen(BenfordValues, n) : n \in 0..MaxValues}

InitBenford ==
    /\ Untouched
    /\ arguments \in BenfordLists
    /\ outcome = << >>

ApplyBenford == Apply(<< Benford_calculate(arguments) >>)

SpecBenford == InitBenford /\ [][ApplyBenford]_vars

\* ------------------------------------------------------------------------
\* BenfordModel::calculate_mad applied on its own to the expected and an
\* actual distribution
\* ------------------------------------------------------------------------

\* the distributions of one or two counted values, the empty sample's
\* all-zero distribution, and the expected one with a thousandth moved from
\* one digit to another
ActualDistributions ==
    {EXPECTED}
    \cup {calculate_actual_distribution(s) :
             s \in UNION {SeqsOfLen({I(k) : k \in 1..9}, n) : n \in 0..2}}
    \cup {[EXPECTED EXCEPT ![i] = RAdd(EXPECTED[i], R(1, 1000)),
                           ![j] = RSub(EXPECTED[j], R(1, 1000))] :
             i \in 1..9, j \in 1..9}

InitMad ==
    /\ Untouched
    /\ arguments \in {EXPECTED} \X ActualDistributions
    /\ outcome = << >>

ApplyMad == Apply(<< calculate_mad(arguments[1], arguments[2]) >>)

SpecMad == InitMad /\ [][ApplyMad]_vars

\* ------------------------------------------------------------------------
\* Cache<T> (cache.h) called from several threads.  A method that takes the
\* mutex is three steps: acquire it, run the body, release it on return.
\* set_ttl and get_ttl take no mutex: the write of ttl_seconds_ by set_ttl
\* is unordered with every read of it, so a read that overlaps the write
\* sees the value before or after it.  steady_clock is the clock, in ticks.
\* ------------------------------------------------------------------------

CacheValues == {"a", "b"}

\* the values set_ttl is called with
TtlChoices == {0, 1}

\* steady_clock stops advancing after this many ticks
MaxCacheClock == 3

\* the methods that take the mutex, and the arguments they are called with
LockedCalls ==
    {[pc |-> "lock", op |-> "set", key |-> k, value |-> v] : k \in Keys, v \in CacheValues}
    \cup {[pc |-> "lock", op |-> o, key |-> k] : o \in {"get", "contains", "remove"}, k \in Keys}
    \cup {[pc |-> "lock", op |-> o] : o \in {"clear", "size", "cleanup_expired"}}

\* CacheEntry{value, steady_clock::now()}
CacheEntry(value, timestamp) == [value |-> value, timestamp |-> timestamp]

\* duration_cast<seconds>(age).count() > ttl
expired(entry, now, ttl) == (now - entry.timestamp) \div TicksPerSecond > ttl

\* the values a read of ttl_seconds_ by thread t can see
ttl_read(t) ==
    {ttl_seconds_} \cup {running[u].seconds : u \in {u \in CacheThreads \ {t} : running[u].pc = "writing_ttl"}}

\* a thread calls one of the methods that take the mutex
Invoke(t) ==
    /\ running[t].pc = "idle"
    /\ \E call \in LockedCalls : running' = [running EXCEPT ![t] = call]
    /\ UNCHANGED << entries_, ttl_seconds_, mutex_, written >>
    /\ UNCHANGED << weights_, last_error_, clock, last_call, prev_call, calls, arguments, outcome, server_vars >>

\* std::lock_guard<std::mutex> lock(mutex_)
Lock(t) ==
    /\ running[t].pc = "lock"
    /\ mutex_ = 0
    /\ mutex_' = t
    /\ running' = [running EXCEPT ![t].pc = "body"]
    /\ UNCHANGED << entries_, ttl_seconds_, written >>
    /\ UNCHANGED << weights_, last_error_, clock, last_call, prev_call, calls, arguments, outcome, server_vars >>

\* the body of a method has run; what it returns is in result
Done(t, result) == [running EXCEPT ![t] = [pc |-> "unlock", op |-> running[t].op, result |-> result]]

InBody(t, op) == running[t].pc = "body" /\ running[t].op = op

Cache_set(t) ==
    /\ InBody(t, "set")
    /\ entries_' = [entries_ EXCEPT ![running[t].key] = Some(CacheEntry(running[t].value, clock))]
    /\ written' = [written EXCEPT ![running[t].key] =
                      Some([value |-> running[t].value, timestamp |-> clock, erased |-> FALSE])]
    /\ running' = Done(t, None)
    /\ UNCHANGED << ttl_seconds_, mutex_ >>
    /\ UNCHANGED << weights_, last_error_, clock, last_call, prev_call, calls, arguments, outcome, server_vars >>

\* get and contains (contains is get(key).has_value()): the entry found,
\* the TTL read, and the value returned or the entry erased
Cache_lookup(t) ==
    LET key == running[t].key
        it  == entries_[key]
    IN  IF ~Has(it)
        THEN /\ running' = Done(t, None)
             /\ UNCHANGED << entries_, written >>
        ELSE \E ttl \in ttl_read(t) :
               IF expired(Get(it), clock, ttl)
               THEN /\ entries_' = [entries_ EXCEPT ![key] = None]
                    /\ written' = [written EXCEPT ![key] = Some([Get(written[key]) EXCEPT !.erased = TRUE])]
                    /\ running' = Done(t, None)
               ELSE /\ running' = [running EXCEPT ![t] =
                           [pc |-> "unlock", op |-> running[t].op, result |-> Some(Get(it).value),
                            key |-> key, age |-> clock - Get(it).timestamp, ttl |-> ttl]]
                    /\ UNCHANGED << entries_, written >>

Cache_get(t) ==
    /\ InBody(t, "get")
    /\ Cache_lookup(t)
    /\ UNCHANGED << ttl_seconds_, mutex_ >>
    /\ UNCHANGED << weights_, last_error_, clock, last_call, prev_call, calls, arguments, outcome, server_vars >>

Cache_contains(t) ==
    /\ InBody(t, "contains")
    /\ Cache_lookup(t)
    /\ UNCHANGED << ttl_seconds_, mutex_ >>
    /\ UNCHANGED << weights_, last_error_, clock, last_call, prev_call, calls, arguments, outcome, server_vars >>

Cache_remove(t) ==
    /\ InBody(t, "remove")
    /\ entries_' = [entries_ EXCEPT ![running[t].key] = None]
    /\ written' = [written EXCEPT ![running[t].key] = None]
    /\ running' = Done(t, None)
    /\ UNCHANGED << ttl_seconds_, mutex_ >>
    /\ UNCHANGED << weights_, last_error_, clock, last_call, prev_call, calls, arguments, outcome, server_vars >>

Cache_clear(t) ==
    /\ InBody(t, "clear")
    /\ entries_' = [k \in Keys |-> None]
    /\ written' = [k \in Keys |-> None]
    /\ running' = Done(t, None)
    /\ UNCHANGED << ttl_seconds_, mutex_ >>
    /\ UNCHANGED << weights_, last_error_, clock, last_call, prev_call, calls, arguments, outcome, server_vars >>

Cache_size(t) ==
    /\ InBody(t, "size")
    /\ running' = Done(t, Some(Cardinality({k \in Keys : Has(entries_[k])})))
    /\ UNCHANGED << entries_, ttl_seconds_, mutex_, written >>
    /\ UNCHANGED << weights_, last_error_, clock, last_call, prev_call, calls, arguments, outcome, server_vars >>

Cache_cleanup_expired(t) ==
    /\ InBody(t, "cleanup_expired")
    /\ \E ttl \in ttl_read(t) :
         LET gone == {k \in Keys : Has(entries_[k]) /\ expired(Get(entries_[k]), clock, ttl)}
         IN  /\ entries_' = [k \in Keys |-> IF k \in gone THEN None ELSE entries_[k]]
             /\ written' = [k \in Keys |-> IF k \in gone
                                           THEN Some([Get(written[k]) EXCEPT !.erased = TRUE])
                                           ELSE written[k]]
    /\ running' = Done(t, None)
    /\ UNCHANGED << ttl_seconds_, mutex_ >>
    /\ UNCHANGED << weights_, last_error_, clock, last_call, prev_call, calls, arguments, outcome, server_vars >>

\* the lock_guard goes out of scope as the method returns
Unlock(t) ==
    /\ running[t].pc = "unlock"
    /\ mutex_ = t
    /\ mutex_' = 0
    /\ running' = [running EXCEPT ![t] = Idle]
    /\ UNCHANGED << entries_, ttl_seconds_, written >>
    /\ UNCHANGED << weights_, last_error_, clock, last_call, prev_call, calls, arguments, outcome, server_vars >>

\* set_ttl(seconds) { ttl_seconds_ = seconds; }: the write begins ...
Cache_set_ttl(t) ==
    /\ running[t].pc = "idle"
    /\ \E seconds \in TtlChoices :
         running' = [running EXCEPT ![t] = [pc |-> "writing_ttl", op |-> "set_ttl", seconds |-> seconds]]
    /\ UNCHANGED << entries_, ttl_seconds_, mutex_, written >>
    /\ UNCHANGED << weights_, last_error_, clock, last_call, prev_call, calls, arguments, outcome, server_vars >>

\* ... and ends
Cache_set_ttl_end(t) ==
    /\ running[t].pc = "writing_ttl"
    /\ ttl_seconds_' = running[t].seconds
    /\ running' = [running EXCEPT ![t] = Idle]
    /\ UNCHANGED << entries_, mutex_, written >>
    /\ UNCHANGED << weights_, last_error_, clock, last_call, prev_call, calls, arguments, outcome, server_vars >>

\* get_ttl() { return ttl_seconds_; }: the call, and then the read
Cache_get_ttl(t) ==
    /\ running[t].pc = "idle"
    /\ running' = [running EXCEPT ![t] = [pc |-> "reading_ttl", op |-> "get_ttl"]]
    /\ UNCHANGED << entries_, ttl_seconds_, mutex_, written >>
    /\ UNCHANGED << weights_, last_error_, clock, last_call, prev_call, calls, arguments, outcome, server_vars >>

Cache_get_ttl_end(t) ==
    /\ running[t].pc = "reading_ttl"
    /\ \E ttl \in ttl_read(t) : running' = [running EXCEPT ![t] = Idle]
    /\ UNCHANGED << entries_, ttl_seconds_, mutex_, written >>
    /\ UNCHANGED << weights_, last_error_, clock, last_call, prev_call, calls, arguments, outcome, server_vars >>

CacheTick ==
    /\ clock < MaxCacheClock
    /\ clock' = clock + 1
    /\ UNCHANGED cache_vars
    /\ UNCHANGED << weights_, last_error_, last_call, prev_call, calls, arguments, outcome, server_vars >>

InitCache ==
    /\ Untouched
    /\ NoApplication

NextCache ==
    \/ \E t \in CacheThreads : Invoke(t)
    \/ \E t \in CacheThreads : Lock(t)
    \/ \E t \in CacheThreads : Cache_set(t)
    \/ \E t \in CacheThreads : Cache_get(t)
    \/ \E t \in CacheThreads : Cache_contains(t)
    \/ \E t \in CacheThreads : Cache_remove(t)
    \/ \E t \in CacheThreads : Cache_clear(t)
    \/ \E t \in CacheThreads : Cache_size(t)
    \/ \E t \in CacheThreads : Cache_cleanup_expired(t)
    \/ \E t \in CacheThreads : Unlock(t)
    \/ \E t \in CacheThreads : Cache_set_ttl(t)
    \/ \E t \in CacheThreads : Cache_set_ttl_end(t)
    \/ \E t \in CacheThreads : Cache_get_ttl(t)
    \/ \E t \in CacheThreads : Cache_get_ttl_end(t)
    \/ CacheTick

SpecCache == InitCache /\ [][NextCache]_vars

\* ------------------------------------------------------------------------
\* BeneishModel::calculate applied to periods with undefined ratios
\* ------------------------------------------------------------------------

\* periods whose revenue, total assets or depreciable base is zero or
\* within the 1e-10 tolerance of it
BeneishDegenerate(revenues) ==
    {[BeneishPrior EXCEPT !.income_statement.revenue = rev,
                          !.balance_sheet.total_assets = ta,
                          !.income_statement.depreciation = I(dp[1]),
                          !.balance_sheet.ppe = I(dp[2]),
                          !.income_statement.net_income = I(100)] :
        rev \in revenues,
        ta \in {I(2000), Zero, Num(1, 1, -11)},
        dp \in {<< 50, 200 >>, << 0, 0 >>}}

BeneishDegeneratePairs ==
    BeneishDegenerate({I(2000), Zero}) \X BeneishDegenerate({I(2000), Zero, Num(-1, 1, -11)})

InitBeneishUndefined ==
    /\ Untouched
    /\ arguments \in BeneishDegeneratePairs
    /\ outcome = << >>

SpecBeneishUndefined == InitBeneishUndefined /\ [][ApplyBeneish]_vars

\* ------------------------------------------------------------------------
\* AltmanZPrimeModel::calculate applied on its own to a snapshot
\* ------------------------------------------------------------------------

ZPrimeData ==
    {[SnapshotSound EXCEPT !.balance_sheet.total_assets = I(ta),
                           !.balance_sheet.total_liabilities = I(tl),
                           !.balance_sheet.retained_earnings = I(re),
                           !.income_statement.operating_income = I(oi),
                           !.balance_sheet.current_assets = I(ca)] :
        ta \in {1000, 0, -1000}, tl \in {500, 0, -500}, re \in {200, -100},
        oi \in {150, -50}, ca \in {600, 400, 250}}

InitZPrime ==
    /\ Untouched
    /\ arguments \in ZPrimeData
    /\ outcome = << >>

ApplyZPrime == Apply(<< AltmanZPrime_calculate(arguments) >>)

SpecZPrime == InitZPrime /\ [][ApplyZPrime]_vars

\* ------------------------------------------------------------------------
\* FraudTriangleModel::calculate applied to sequences that raise few or
\* many of its ten indicators
\* ------------------------------------------------------------------------

\* a larger and more profitable period than SnapshotSound
SnapshotGrown ==
    [SnapshotSound EXCEPT !.income_statement.revenue = I(1000),
                          !.income_statement.gross_profit = I(450)]

\* high leverage, cash outflow, heavy intangibles, a margin barely above zero
SnapshotStressed ==
    [SnapshotGrown EXCEPT !.balance_sheet.total_liabilities = I(700),
                          !.cash_flow.operating_cash_flow = I(-40),
                          !.balance_sheet.goodwill = I(300),
                          !.income_statement.net_income = I(5)]

\* a thin margin with income well above cash flow, receivables doubled,
\* depreciation tripled
SnapshotThin ==
    [SnapshotSound EXCEPT !.income_statement.net_income = I(5),
                          !.cash_flow.operating_cash_flow = I(2),
                          !.balance_sheet.accounts_receivable = I(200),
                          !.income_statement.depreciation = I(90)]

\* everything at once, on top of growth
SnapshotAlarming ==
    [SnapshotStressed EXCEPT !.income_statement.revenue = I(1100),
                             !.income_statement.gross_profit = I(550),
                             !.balance_sheet.accounts_receivable = I(400),
                             !.income_statement.depreciation = I(200),
                             !.income_statement.net_income = I(6)]

RiskSnapshots ==
    {SnapshotSound, SnapshotGrown, SnapshotStressed, SnapshotThin, SnapshotAlarming,
     SnapshotDistressed}

RiskFinancials == UNION {SeqsOfLen(RiskSnapshots, n) : n \in 0..MaxSnapshots}

InitTriangleRisk ==
    /\ Untouched
    /\ arguments \in RiskFinancials
    /\ outcome = << >>

SpecTriangleRisk == InitTriangleRisk /\ [][ApplyTriangle]_vars

\* ------------------------------------------------------------------------
\* RiskWeights::normalize applied to a set of weights, and applied again
\* ------------------------------------------------------------------------

WeightsToNormalize ==
    {[beneish |-> b, altman |-> a, piotroski |-> p, fraud_triangle |-> f,
      benford |-> d, red_flags |-> g] :
        b \in {I(-1), Zero, R(3, 10), One}, a \in {Zero, R(25, 100), I(2)},
        p \in {Zero, R(15, 100)}, f \in {Zero, R(15, 100)},
        d \in {R(-5, 100), Zero, R(5, 100)}, g \in {Zero, R(1, 10)}}

InitNormalize ==
    /\ Untouched
    /\ arguments \in WeightsToNormalize
    /\ outcome = << >>

\* normalize(), on the weights as loaded and then on its own result
ApplyNormalize ==
    /\ Len(outcome) < 2
    /\ outcome' = Append(outcome, normalize(IF outcome = << >> THEN arguments
                                            ELSE outcome[Len(outcome)]))
    /\ UNCHANGED << weights_, last_error_, clock, last_call, prev_call, calls, arguments, cache_vars, server_vars >>

SpecNormalize == InitNormalize /\ [][ApplyNormalize]_vars

\* ------------------------------------------------------------------------
\* The models run over two or three snapshots of which five line items are
\* known (revenue, net income, total assets, total liabilities, operating
\* cash flow: the values extract_all_values hands to the Benford model)
\* ------------------------------------------------------------------------

\* a filing of which only these five facts were found: every other line item
\* keeps the zero it is initialised with
LineItems(rev, ni, ta, tl, ocf) ==
    [SnapshotInvalid EXCEPT !.is_valid = TRUE,
                            !.income_statement.revenue = rev,
                          !.income_statement.net_income = ni,
                          !.balance_sheet.total_assets = ta,
                          !.balance_sheet.total_liabilities = tl,
                          !.cash_flow.operating_cash_flow = ocf]

\* Taken two or three at a time the first three spread the first digits as
\* near to Benford's shares as ten or fifteen values can; the others hold
\* values that are not counted (zero, below 1 in size) and repeated digits.
DigitSnapshots ==
    {LineItems(I(1000), I(200), I(3000), I(1500), I(400)),
     LineItems(I(1300), I(250), I(5000), I(6000), I(700)),
     LineItems(I(7000), I(800), I(9000), I(2200), I(3100)),
     LineItems(I(1200), I(500), I(2000), I(1100), I(600)),
     LineItems(Zero, R(1, 2), I(1), Zero, R(-2, 10)),
     LineItems(Zero, Zero, Zero, Zero, Zero),
     LineItems(I(900), I(-90), I(990), I(95), I(-9))}

\* every pair, and every triple of the sets that are counted in full or
\* nearly not at all
DigitFinancials ==
    SeqsOfLen(DigitSnapshots, 2) \cup
    SeqsOfLen({LineItems(I(1000), I(200), I(3000), I(1500), I(400)),
               LineItems(I(7000), I(800), I(9000), I(2200), I(3100)),
               LineItems(I(1200), I(500), I(2000), I(1100), I(600)),
               LineItems(Zero, R(1, 2), I(1), Zero, R(-2, 10))}, 3)

\* Snapshots whose most recent Z-Score lies in, between and on the edges of
\* the Altman zones: with total assets of 1000 and no other balance-sheet
\* fact the Z-Score is revenue / 1000
ZoneSnapshots ==
    {LineItems(I(rev), I(100), I(1000), Zero, I(50)) : rev \in {0, 1800, 1810, 1820, 2990, 3000}}

ZoneFinancials == SeqsOfLen(ZoneSnapshots, 2)

LineItemFinancials == DigitFinancials \cup ZoneFinancials

\* analyze_financials is called on these inputs, one call after another
NextLineItems ==
    \E financials \in LineItemFinancials, company \in Companies :
        analyze_financials(financials, company)

SpecLineItems == Init /\ [][NextLineItems]_vars

\* ------------------------------------------------------------------------
\* FraudTriangleModel::determine_risk_level applied to two overall scores
\* ------------------------------------------------------------------------

ApplyTriangleLevel ==
    Apply(<< FraudTriangle_determine_risk_level(arguments[1]),
             FraudTriangle_determine_risk_level(arguments[2]) >>)

SpecTriangleLevel == InitRiskLevel /\ [][ApplyTriangleLevel]_vars

\* ------------------------------------------------------------------------
\* HttpServer (http_server.cpp): one thread per accepted connection runs
\* handle_client; the thread of main() registers routes and starts and
\* stops the server
\* ------------------------------------------------------------------------

\* what clients ask for, and the routes main() registers
RequestMethods == {"GET", "OPTIONS"}

RequestPaths == {"/api/analyze", "/api/health", "/index.html"}

Routes == {<< "GET", "/api/analyze" >>, << "GET", "/api/health" >>}

\* the handlers of main.cpp that call the shared FraudAnalyzer
UsesAnalyzer(path) == path = "/api/analyze"

\* the rest of the analyzer, the cache and the applied functions stand still
ServerOnly ==
    UNCHANGED << weights_, last_error_, clock, last_call, prev_call, calls, arguments, outcome,
                 cache_vars >>

\* main() sets the option before it starts the server
set_cors_enabled(enabled) ==
    /\ ~running_
    /\ \A t \in ClientThreads : connections[t] = Idle
    /\ cors_enabled_' = enabled
    /\ UNCHANGED << handlers_, handlers_mutex_, running_, connections, registration >>
    /\ ServerOnly

HttpServer_start ==
    /\ ~running_
    /\ running_' = TRUE
    /\ UNCHANGED << handlers_, handlers_mutex_, cors_enabled_, connections, registration >>
    /\ ServerOnly

\* the accept thread ends; client threads are detached and run on
HttpServer_stop ==
    /\ running_
    /\ running_' = FALSE
    /\ UNCHANGED << handlers_, handlers_mutex_, cors_enabled_, connections, registration >>
    /\ ServerOnly

\* accept_connections hands the socket to a new thread, which reads and
\* parses the request
accept_connections(t) ==
    /\ running_
    /\ connections[t] = Idle
    /\ \E m \in RequestMethods, p \in RequestPaths :
           connections' = [connections EXCEPT ![t] = [pc |-> "parsed", method |-> m, path |-> p]]
    /\ UNCHANGED << handlers_, handlers_mutex_, running_, cors_enabled_, registration >>
    /\ ServerOnly

IsPreflight(t) == cors_enabled_ /\ connections[t].method = "OPTIONS"

\* the CORS preflight is answered with 204 before any handler is looked up
handle_client_preflight(t) ==
    /\ connections[t].pc = "parsed"
    /\ IsPreflight(t)
    /\ connections' = [connections EXCEPT ![t] = Idle]
    /\ UNCHANGED << handlers_, handlers_mutex_, running_, cors_enabled_, registration >>
    /\ ServerOnly

\* a lock that does not wait for the mutex and does not take it
handle_client_lock_not_taken(t) ==
    /\ connections[t].pc = "parsed"
    /\ ~IsPreflight(t)
    /\ connections' = [connections EXCEPT ![t].pc = "locked"]
    /\ UNCHANGED << handlers_, handlers_mutex_, running_, cors_enabled_, registration >>
    /\ ServerOnly

\* std::lock_guard<std::mutex> lock(handlers_mutex_)
handle_client_lock(t) ==
    /\ connections[t].pc = "parsed"
    /\ ~IsPreflight(t)
    /\ handlers_mutex_ = ""
    /\ handlers_mutex_' = t
    /\ connections' = [connections EXCEPT ![t].pc = "locked"]
    /\ UNCHANGED << handlers_, running_, cors_enabled_, registration >>
    /\ ServerOnly

\* handlers_.find: a handler that is found is entered with the lock held;
\* when none is found the block ends and the lock is released
handle_client_find(t) ==
    /\ connections[t].pc = "locked"
    /\ IF << connections[t].method, connections[t].path >> \in handlers_
       THEN /\ connections' = [connections EXCEPT ![t].pc = "handler"]
            /\ UNCHANGED handlers_mutex_
       ELSE /\ connections' = [connections EXCEPT ![t].pc = "unfound"]
            /\ handlers_mutex_' = ""
    /\ UNCHANGED << handlers_, running_, cors_enabled_, registration >>
    /\ ServerOnly

\* the handler returns its response or throws (500); the block ends and the
\* lock is released
handle_client_handler_returns(t) ==
    /\ connections[t].pc = "handler"
    /\ \E status \in {200, 500} :
           connections' = [connections EXCEPT ![t] = [pc |-> "respond", status |-> status]]
    /\ handlers_mutex_' = ""
    /\ UNCHANGED << handlers_, running_, cors_enabled_, registration >>
    /\ ServerOnly

\* no handler: a GET is served from the static directory, anything else is
\* not found
handle_client_fallback(t) ==
    /\ connections[t].pc = "unfound"
    /\ \E status \in (IF connections[t].method = "GET" THEN {200, 404} ELSE {404}) :
           connections' = [connections EXCEPT ![t] = [pc |-> "respond", status |-> status]]
    /\ UNCHANGED << handlers_, handlers_mutex_, running_, cors_enabled_, registration >>
    /\ ServerOnly

\* the response is sent, the socket closed, the thread ends
handle_client_send(t) ==
    /\ connections[t].pc = "respond"
    /\ connections' = [connections EXCEPT ![t] = Idle]
    /\ UNCHANGED << handlers_, handlers_mutex_, running_, cors_enabled_, registration >>
    /\ ServerOnly

\* route(): std::lock_guard<std::mutex> lock(handlers_mutex_)
route_lock(key) ==
    /\ registration = Idle
    /\ handlers_mutex_ = ""
    /\ handlers_mutex_' = MainThread
    /\ registration' = [pc |-> "insert", key |-> key]
    /\ UNCHANGED << handlers_, running_, cors_enabled_, connections >>
    /\ ServerOnly

\* route(): handlers_[{method, path}] = handler, and the lock is released
route_insert ==
    /\ registration.pc = "insert"
    /\ handlers_' = handlers_ \cup {registration.key}
    /\ handlers_mutex_' = ""
    /\ registration' = Idle
    /\ UNCHANGED << running_, cors_enabled_, connections >>
    /\ ServerOnly

InitServer ==
    /\ Untouched
    /\ NoApplication

NextServer ==
    \/ \E enabled \in BOOLEAN : set_cors_enabled(enabled)
    \/ HttpServer_start
    \/ HttpServer_stop
    \/ \E t \in ClientThreads : accept_connections(t)
    \/ \E t \in ClientThreads : handle_client_preflight(t)
    \/ \E t \in ClientThreads : handle_client_lock(t)
    \/ \E t \in ClientThreads : handle_client_find(t)
    \/ \E t \in ClientThreads : handle_client_handler_returns(t)
    \/ \E t \in ClientThreads : handle_client_fallback(t)
    \/ \E t \in ClientThreads : handle_client_send(t)
    \/ \E key \in Routes : route_lock(key)
    \/ route_insert

SpecServer == InitServer /\ [][NextServer]_vars

\* ------------------------------------------------------------------------
\* Properties of the analyzer's calls (specification Spec)
\* ------------------------------------------------------------------------

\* the five model results of an AnalysisResult
ModelResults(r) == << r.beneish, r.altman, r.piotroski, r.fraud_triangle, r.benford >>

AllPresent(r) == \A i \in 1..5 : Has(ModelResults(r)[i])

NonePresent(r) == \A i \in 1..5 : ~Has(ModelResults(r)[i])

\* the number of snapshots of a sequence whose is_valid flag is set
RECURSIVE ValidCount(_)
ValidCount(financials) ==
    IF financials = << >> THEN 0
    ELSE (IF Head(financials).is_valid THEN 1 ELSE 0) + ValidCount(Tail(financials))

\* C2: after every analyze_financials call on one analyzer, has_error() is
\* true exactly when that call was given fewer than two snapshots, whatever
\* the calls before it were.
C2_status_of_latest_call ==
    Has(last_call) => (has_error <=> Len(Get(last_call).financials) < 2)

\* C3: a call given fewer than two snapshots returns a result with none of
\* the five model results present and no red flag, and has_error() is true
\* after it; a call given two or more snapshots returns a result with all
\* five model results present.
C3_insufficient_data ==
    Has(last_call) =>
        LET call == Get(last_call)
            r    == returned(call)
        IN  IF Len(call.financials) < 2
            THEN NonePresent(r) /\ r.red_flags = << >> /\ has_error
            ELSE AllPresent(r)

\* a call given a single snapshot has returned an empty result and left the
\* error set
C3_witness ==
    /\ Has(last_call)
    /\ Len(Get(last_call).financials) = 1
    /\ NonePresent(returned(Get(last_call)))
    /\ has_error

\* C4: a call given a sequence with fewer than two valid snapshots (is_valid
\* set) is reported as insufficient data and returns no model result,
\* whatever the length of the sequence.
C4_invalid_snapshots_kept_out ==
    Has(last_call) =>
        LET call == Get(last_call)
        IN  ValidCount(call.financials) < 2 =>
                has_error /\ NonePresent(returned(call))

\* C5: on a successful analysis the composite score is the clamp to [0,1] of
\* the weighted sum of the Beneish, Altman and Piotroski risk scores, the
\* fraud triangle's overall risk and clamp(MAD / 0.02, 0, 1) of the digit
\* distribution, plus the red-flag weight times min(1, flags / 5).
C5_composite_formula ==
    Has(last_call) /\ Len(Get(last_call).financials) >= 2 =>
        LET call == Get(last_call)
            r    == returned(call)
            w    == call.weights
            benford_risk == RClamp(RDiv(Get(r.benford).mad, R(2, 100)), Zero, One)
            flag_risk    == RMin(One, R(Len(r.red_flags), 5))
            sum == RAdd(RMul(w.beneish, Get(r.beneish).risk_score),
                   RAdd(RMul(w.altman, Get(r.altman).risk_score),
                   RAdd(RMul(w.piotroski, Get(r.piotroski).risk_score),
                   RAdd(RMul(w.fraud_triangle, Get(r.fraud_triangle).overall_risk),
                   RAdd(RMul(w.benford, benford_risk),
                        RMul(w.red_flags, flag_risk))))))
        IN  REq(r.composite_risk_score, RClamp(sum, Zero, One))

C8_status_as_sequential ==
    (\A t \in Threads : calls[t].pc = "done") =>
        \A first \in Threads :
            LET second == Other(first)
                e1 == analysis_error(calls[first].financials, "")
                e2 == analysis_error(calls[second].financials, e1)
            IN  /\ calls[first].status = (e1 # "")
                /\ calls[second].status = (e2 # "")

\* ------------------------------------------------------------------------
\* Properties of the functions applied on their own
\* ------------------------------------------------------------------------

\* C1: calculate_composite_score returns a value in [0,1] for every
\* combination of present and absent model results, every number of red
\* flags and all non-negative weights, weights that sum to more than 1
\* included (specification SpecComposite).
C1_composite_in_unit_interval ==
    outcome # << >> => RLe(Zero, outcome[1]) /\ RLe(outcome[1], One)

\* every model at full risk under weights that sum to 6: the score is 1
C1_witness ==
    /\ outcome = << One >>
    /\ arguments[2] = HeavyWeights
    /\ AllPresent(arguments[1])
    /\ Get(arguments[1].beneish).risk_score = One
    /\ Get(arguments[1].altman).risk_score = One
    /\ Len(arguments[1].red_flags) > 5

\* C6: determine_risk_level maps a score of [0,1] to CRITICAL iff it is
\* >= 0.8, HIGH iff in [0.6, 0.8), ELEVATED iff in [0.4, 0.6), MODERATE iff
\* in [0.2, 0.4) and LOW iff below 0.2, and a score that is not smaller gets
\* a level that is not lower (specification SpecRiskLevel).
C6_risk_level_thresholds ==
    outcome # << >> =>
        /\ \A i \in 1..2 :
             LET score == arguments[i]
                 level == outcome[i]
                 within(lo, hi) == RGe(score, lo) /\ RLt(score, hi)
             IN  /\ level \in {"LOW", "MODERATE", "ELEVATED", "HIGH", "CRITICAL"}
                 /\ level = "CRITICAL" <=> RGe(score, R(8, 10))
                 /\ level = "HIGH" <=> within(R(6, 10), R(8, 10))
                 /\ level = "ELEVATED" <=> within(R(4, 10), R(6, 10))
                 /\ level = "MODERATE" <=> within(R(2, 10), R(4, 10))
                 /\ level = "LOW" <=> RLt(score, R(2, 10))
        /\ RLe(arguments[1], arguments[2]) =>
               RiskLevelOrd(outcome[1]) <= RiskLevelOrd(outcome[2])

\* the scores 0.6 and 0.8, on two thresholds, are HIGH and CRITICAL
C6_witness ==
    /\ arguments = << R(6, 10), R(8, 10) >>
    /\ outcome = << "HIGH", "CRITICAL" >>

\* C7: detect_red_flags returns exactly the flags whose rule fires
\* (EARNINGS_MANIPULATION iff Beneish likely_manipulator, BANKRUPTCY_RISK iff
\* Altman z_score < 1.81, WEAK_FUNDAMENTALS iff Piotroski f_score <= 3,
\* FRAUD_TRIANGLE iff fraud-triangle overall_risk > 0.6, BENFORD_ANOMALY iff
\* Benford is_suspicious), each at most once and in that order, none for an
\* absent model, each with the severity, source and confidence of its type,
\* so never more than five (specification SpecRedFlags).
C7_red_flags_by_rule ==
    outcome # << >> =>
        LET result == arguments[1]
            flags  == outcome[1]
            order  == << "EARNINGS_MANIPULATION", "BANKRUPTCY_RISK", "WEAK_FUNDAMENTALS",
                         "FRAUD_TRIANGLE", "BENFORD_ANOMALY" >>
            fires(type) ==
                CASE type = "EARNINGS_MANIPULATION" ->
                       Has(result.beneish) /\ Get(result.beneish).likely_manipulator
                  [] type = "BANKRUPTCY_RISK" ->
                       Has(result.altman) /\ RLt(Get(result.altman).z_score, R(181, 100))
                  [] type = "WEAK_FUNDAMENTALS" ->
                       Has(result.piotroski) /\ Get(result.piotroski).f_score <= 3
                  [] type = "FRAUD_TRIANGLE" ->
                       Has(result.fraud_triangle)
                       /\ RGt(Get(result.fraud_triangle).overall_risk, R(6, 10))
                  [] type = "BENFORD_ANOMALY" ->
                       Has(result.benford) /\ Get(result.benford).is_suspicious
            fixed(type) ==
                CASE type = "EARNINGS_MANIPULATION" -> << "HIGH", "Beneish Model", R(90, 100) >>
                  [] type = "BANKRUPTCY_RISK" -> << "HIGH", "Altman Model", R(85, 100) >>
                  [] type = "WEAK_FUNDAMENTALS" -> << "ELEVATED", "Piotroski Model", R(70, 100) >>
                  [] type = "FRAUD_TRIANGLE" -> << "HIGH", "Fraud Triangle Model", R(80, 100) >>
                  [] type = "BENFORD_ANOMALY" -> << "ELEVATED", "Benford Model", R(65, 100) >>
        IN  /\ [k \in 1..Len(flags) |-> flags[k].type] = SelectSeq(order, fires)
            /\ \A k \in 1..Len(flags) :
                 << flags[k].severity, flags[k].source, flags[k].confidence >>
                     = fixed(flags[k].type)
            /\ Len(flags) <= 5

\* every rule fires but the bankruptcy rule, whose z_score is 1.81 itself
C7_witness ==
    /\ outcome # << >>
    /\ Has(arguments[1].altman)
    /\ Get(arguments[1].altman).z_score = R(181, 100)
    /\ Len(outcome[1]) = 4
    /\ outcome[1][2].type = "WEAK_FUNDAMENTALS"

\* C10: every safe-division helper (Beneish, Altman, the five Piotroski
\* ratios) returns numerator / denominator for a denominator d with
\* |d| >= 1e-10, positive or negative, and its default (the one passed for
\* Beneish, 0 for Altman and Piotroski) for |d| < 1e-10 (specification
\* SpecDivide).
C10_safe_division ==
    outcome # << >> =>
        LET num   == arguments[1]
            denom == arguments[2]
        IN  IF RGe(RAbs(denom), Num(1, 1, -10))
            THEN \A i \in 1..7 : REq(RMul(outcome[i], denom), num)
            ELSE outcome = << arguments[3], Zero, Zero, Zero, Zero, Zero, Zero >>

\* 1 / -2 is -1/2 for every helper
C10_witness ==
    /\ arguments[1] = One
    /\ arguments[2] = I(-2)
    /\ outcome # << >>
    /\ \A i \in 1..7 : outcome[i] = R(-1, 2)

\* ------------------------------------------------------------------------
\* Properties of the five models applied on their own
\* ------------------------------------------------------------------------

\* C11: AltmanModel::calculate computes X1 = (current assets - current
\* liabilities) / total assets, X2 = retained earnings / total assets,
\* X3 = operating income / total assets, X4 = equity / total liabilities
\* with the market cap as equity when it is positive and the book equity
\* otherwise, X5 = revenue / total assets (each ratio 0 when its denominator
\* is within 1e-10 of zero), Z = 1.2 X1 + 1.4 X2 + 3.3 X3 + 0.6 X4 + 1.0 X5,
\* and the zone Safe iff Z > 2.99, Gray iff 1.81 < Z <= 2.99, Distress
\* otherwise; the spec's scenario yields Z = 2.515 and Gray (specification
\* SpecAltman).
C11_altman_formula ==
    outcome # << >> =>
        LET bs == arguments[1].balance_sheet
            is == arguments[1].income_statement
            market_cap == arguments[2]
            r  == outcome[1]
            ratio(x, num, denom) ==
                IF RGe(RAbs(denom), Num(1, 1, -10))
                THEN REq(RMul(x, denom), num) ELSE x = Zero
            equity == IF RGt(market_cap, Zero) THEN market_cap ELSE bs.total_equity
            z == RAdd(RMul(R(12, 10), r.x1), RAdd(RMul(R(14, 10), r.x2),
                 RAdd(RMul(R(33, 10), r.x3), RAdd(RMul(R(6, 10), r.x4), r.x5))))
        IN  /\ ratio(r.x1, RSub(bs.current_assets, bs.current_liabilities), bs.total_assets)
            /\ ratio(r.x2, bs.retained_earnings, bs.total_assets)
            /\ ratio(r.x3, is.operating_income, bs.total_assets)
            /\ ratio(r.x4, equity, bs.total_liabilities)
            /\ ratio(r.x5, is.revenue, bs.total_assets)
            /\ REq(r.z_score, z)
            /\ r.zone = "Safe" <=> RGt(r.z_score, R(299, 100))
            /\ r.zone = "Gray" <=> RGt(r.z_score, R(181, 100)) /\ RLe(r.z_score, R(299, 100))
            /\ r.zone = "Distress" <=> RLe(r.z_score, R(181, 100))
            /\ (arguments = << SnapshotSound, Zero >> =>
                    r.z_score = R(2515, 1000) /\ r.zone = "Gray")

\* the spec's scenario has been computed: Z = 2.515, Gray
C11_witness ==
    /\ arguments = << SnapshotSound, Zero >>
    /\ outcome # << >>
    /\ outcome[1].z_score = R(2515, 1000)
    /\ outcome[1].zone = "Gray"

\* C12: BeneishModel::calculate sets likely_manipulator exactly when the
\* M-Score is above -2.22, and the zone agrees with it: the four bands
\* (above -1.78 High Risk, above -2.22 Elevated Risk, above -2.50 Moderate
\* Risk, Low Risk otherwise) give every score exactly one zone, and the zone
\* is High Risk or Elevated Risk exactly when likely_manipulator is set.
C12_manipulator_and_zone ==
    outcome # << >> =>
        LET r == outcome[1]
            m == r.m_score
            high     == RGt(m, R(-178, 100))
            elevated == RGt(m, R(-222, 100)) /\ RLe(m, R(-178, 100))
            moderate == RGt(m, R(-250, 100)) /\ RLe(m, R(-222, 100))
            low      == RLe(m, R(-250, 100))
        IN  /\ r.likely_manipulator <=> RGt(m, R(-222, 100))
            /\ r.zone \in {"High Risk", "Elevated Risk", "Moderate Risk", "Low Risk"}
            /\ (r.zone = "High Risk") <=> high
            /\ (r.zone = "Elevated Risk") <=> elevated
            /\ (r.zone = "Moderate Risk") <=> moderate
            /\ (r.zone = "Low Risk") <=> low
            /\ (r.zone \in {"High Risk", "Elevated Risk"}) <=> r.likely_manipulator

\* a score exactly on the -2.22 threshold has been classified: Moderate Risk
\* and not a likely manipulator
C12_witness ==
    /\ outcome # << >>
    /\ REq(outcome[1].m_score, R(-222, 100))
    /\ outcome[1].zone = "Moderate Risk"
    /\ ~outcome[1].likely_manipulator

C14_f_score_and_interpretation ==
    outcome # << >> =>
        LET r == outcome[1]
            criteria == << r.roa_positive, r.cfo_positive, r.roa_increasing,
                           r.cfo_greater_than_ni, r.leverage_decreasing,
                           r.current_ratio_increasing, r.no_dilution,
                           r.gross_margin_increasing, r.asset_turnover_increasing >>
        IN  /\ r.f_score = Cardinality({k \in 1..9 : criteria[k]})
            /\ r.f_score \in 0..9
            /\ (r.interpretation = "Strong") <=> r.f_score >= 7
            /\ (r.interpretation = "Moderate") <=> r.f_score \in 4..6
            /\ (r.interpretation = "Weak") <=> r.f_score <= 3
            /\ REq(RAdd(r.risk_score, R(r.f_score, 9)), One)
            /\ RGe(r.risk_score, Zero) /\ RLe(r.risk_score, One)
            /\ ((\A k \in 1..7 : criteria[k]) /\ ~criteria[8] /\ ~criteria[9])
               => r.f_score = 7 /\ r.interpretation = "Strong"

\* the scenario: profitability and leverage/liquidity criteria hold, the
\* efficiency criteria do not, and the result is 7, Strong
C14_witness ==
    /\ outcome # << >>
    /\ outcome[1].roa_positive /\ outcome[1].cfo_positive
    /\ outcome[1].roa_increasing /\ outcome[1].cfo_greater_than_ni
    /\ outcome[1].leverage_decreasing /\ outcome[1].current_ratio_increasing
    /\ outcome[1].no_dilution
    /\ ~outcome[1].gross_margin_increasing /\ ~outcome[1].asset_turnover_increasing
    /\ outcome[1].f_score = 7
    /\ outcome[1].interpretation = "Strong"

\* ------------------------------------------------------------------------
\* Properties of the trend analysis applied on its own
\* ------------------------------------------------------------------------

\* C15: analyze_trends classifies revenue and net income each from the
\* newest and the oldest snapshot only: IMPROVING exactly when newest >
\* 1.05 x oldest, DECLINING exactly when newest < 0.95 x oldest, STABLE
\* otherwise, for every pair of values, zero and negative ones included, so
\* that equal newest and oldest values are never IMPROVING or DECLINING.
C15_trend_by_band ==
    (outcome # << >> /\ Len(arguments) >= 2) =>
        LET newest == arguments[1].income_statement
            oldest == arguments[Len(arguments)].income_statement
            above(new, old) == RGt(new, RMul(R(105, 100), old))
            below(new, old) == RLt(new, RMul(R(95, 100), old))
            by_band(new, old, direction) ==
                /\ (direction = "IMPROVING") <=> above(new, old)
                /\ (direction = "DECLINING") <=> below(new, old)
                /\ (direction = "STABLE") <=> (~above(new, old) /\ ~below(new, old))
                /\ REq(new, old) => direction = "STABLE"
        IN  /\ by_band(newest.revenue, oldest.revenue, outcome[1].revenue_trend)
            /\ by_band(newest.net_income, oldest.net_income, outcome[1].income_trend)

\* ------------------------------------------------------------------------
\* Properties of the fraud triangle applied on its own
\* ------------------------------------------------------------------------

\* C16: with the sequence newest first, the declining-revenue and the
\* declining-gross-margin indicators take a comparison of two adjacent
\* periods for a decrease when the newer period's value is lower than the
\* older period's: they fire when every comparison is such a decrease and
\* stay silent when none is, and for two snapshots the declining-revenue
\* indicator fires exactly when the newest revenue is lower than the prior.
C16_decrease_is_newer_below_older ==
    (outcome # << >> /\ Len(arguments) >= 2) =>
        LET fired(text) == \E k \in DOMAIN outcome[1].pressure_indicators :
                               outcome[1].pressure_indicators[k] = text
            revenue(i) == arguments[i].income_statement.revenue
            margin(i) == gross_margin(arguments[i].income_statement)
            \* position i is the newer period of the pair (i, i + 1)
            pairs == 1..(Len(arguments) - 1)
        IN  /\ (\A i \in pairs : RLt(revenue(i), revenue(i + 1))) => fired("Declining revenue trend")
            /\ (\A i \in pairs : ~RLt(revenue(i), revenue(i + 1))) => ~fired("Declining revenue trend")
            /\ (\A i \in pairs : RLt(margin(i), margin(i + 1))) => fired("Declining profit margins")
            /\ (\A i \in pairs : ~RLt(margin(i), margin(i + 1))) => ~fired("Declining profit margins")
            /\ Len(arguments) = 2 =>
                   (fired("Declining revenue trend") <=> RLt(revenue(1), revenue(2)))

\* C17: for n >= 2 snapshots the declining-revenue and the declining-gross-
\* margin indicators fire only when strictly more than half of the n - 1
\* comparisons of adjacent periods are counted as a decrease (counted as the
\* indicators count them).
C17_strict_majority ==
    (outcome # << >> /\ Len(arguments) >= 2) =>
        LET fired(text) == \E k \in DOMAIN outcome[1].pressure_indicators :
                               outcome[1].pressure_indicators[k] = text
            n == Len(arguments)
            revenue_decreases == Cardinality({i \in 2..n :
                RLt(arguments[i].income_statement.revenue,
                    arguments[i - 1].income_statement.revenue)})
            margin_decreases == Cardinality({i \in 2..n :
                RLt(gross_margin(arguments[i].income_statement),
                    gross_margin(arguments[i - 1].income_statement))})
        IN  /\ fired("Declining revenue trend") => 2 * revenue_decreases > n - 1
            /\ fired("Declining profit margins") => 2 * margin_decreases > n - 1

\* ------------------------------------------------------------------------
\* Properties of the Benford model applied on its own
\* ------------------------------------------------------------------------

\* C18: BenfordModel::calculate ignores every value that is non-finite or
\* below 1 in absolute value: the result is, field by field, the result for
\* the list without those values (so adding or removing them changes
\* nothing); the sample size n of the statistics equals the number of values
\* counted in the nine first-digit buckets; and whenever n > 0 the actual
\* distribution sums to 1.
C18_ignored_values ==
    outcome # << >> =>
        LET ignored(v) == v.d = 0 \/ RLt(RAbs(v), One)
            counted(v) == ~ignored(v)
            kept == SelectSeq(arguments, counted)
            n == Cardinality({k \in 1..Len(arguments) : is_valid_value(arguments[k])})
            buckets == RSum([i \in 1..9 |-> I(DigitCount(arguments, i))], 9)
        IN  /\ outcome[1] = Benford_calculate(kept)
            /\ n = Len(kept)
            /\ buckets = I(n)
            /\ n > 0 => RSum(outcome[1].actual_distribution, 9) = One

\* a list holding a zero and a non-finite value next to two counted values
\* has been analysed as the two counted values alone
C18_witness ==
    /\ outcome # << >>
    /\ \E i, k \in 1..Len(arguments) : arguments[i] = Zero /\ arguments[k].d = 0
    /\ outcome[1].actual_distribution[2] = R(1, 2)
    /\ outcome[1].actual_distribution[9] = R(1, 2)
    /\ outcome[1] = Benford_calculate(<< I(-250), R(999, 100) >>)

\* C19: the expected first-digit distribution has nine entries that sum to
\* 1.000; calculate_mad returns 0 when the actual distribution equals the
\* expected one entry by entry, and a value >= 0 otherwise.
C19_expected_and_mad ==
    /\ Len(EXPECTED) = 9
    /\ RSum(EXPECTED, 9) = One
    /\ outcome # << >> =>
           /\ (\A i \in 1..9 : REq(arguments[2][i], arguments[1][i])) => outcome[1] = Zero
           /\ RGe(outcome[1], Zero)

\* the deviation of the expected distribution from itself has been computed
\* and is 0
C19_witness ==
    /\ outcome # << >>
    /\ arguments = << EXPECTED, EXPECTED >>
    /\ outcome[1] = Zero

\* ------------------------------------------------------------------------
\* Properties of the cache under concurrent callers (specification SpecCache)
\* ------------------------------------------------------------------------

\* C20: Cache<T> is thread-safe with a TTL.  Under any interleaving of its
\* methods from several threads, every access to the shared state (the
\* entries and the TTL) happens under the cache mutex: a thread that is at
\* an access holds the mutex.  get(key) returns a value only if it is the
\* value of the latest set(key) not followed by remove(key) or clear(), and
\* that entry's age does not exceed the TTL; an entry found older than the
\* TTL is erased by get and never returned afterwards.
C20_cache_thread_safe ==
    \A t \in CacheThreads :
        /\ running[t].pc \in {"body", "writing_ttl", "reading_ttl"} => mutex_ = t
        /\ (running[t].pc = "unlock" /\ running[t].op = "get" /\ Has(running[t].result)) =>
               LET latest == written[running[t].key]
               IN  /\ Has(latest)
                   /\ Get(latest).value = Get(running[t].result)
                   /\ ~Get(latest).erased
                   /\ running[t].age <= running[t].ttl * TicksPerSecond
        /\ \A k \in Keys : (Has(written[k]) /\ Get(written[k]).erased) => ~Has(entries_[k])

\* ------------------------------------------------------------------------
\* Properties of the models on degenerate and further inputs
\* ------------------------------------------------------------------------

\* C21: a Beneish index whose underlying ratio is undefined contributes the
\* neutral value: each of DSRI, GMI, AQI, SGI, DEPI, SGAI and LVGI is exactly
\* 1 when a denominator used to compute it, in either period, is below 1e-10
\* in absolute value (zero revenue in the current period, say), and TATA is
\* 0 when total assets are near zero.
C21_undefined_index_is_neutral ==
    outcome # << >> =>
        LET r == outcome[1]
            current == arguments[1]
            prior == arguments[2]
            tiny(x) == RLt(RAbs(x), EPSILON)
            no_revenue(s) == tiny(s.income_statement.revenue)
            no_assets(s) == tiny(s.balance_sheet.total_assets)
            no_base(s) == tiny(RAdd(s.income_statement.depreciation, s.balance_sheet.ppe))
        IN  /\ (no_revenue(current) \/ no_revenue(prior)) => r.dsri = One
            /\ (no_revenue(current) \/ no_revenue(prior)) => r.gmi = One
            /\ (no_assets(current) \/ no_assets(prior)) => r.aqi = One
            /\ no_revenue(prior) => r.sgi = One
            /\ (no_base(current) \/ no_base(prior)) => r.depi = One
            /\ (no_revenue(current) \/ no_revenue(prior)) => r.sgai = One
            /\ (no_assets(current) \/ no_assets(prior)) => r.lvgi = One
            /\ no_assets(current) => r.tata = Zero

\* C22: AltmanZPrimeModel::calculate follows the safe-division rule of the
\* other models with default 0: each of X1..X4 is numerator / denominator
\* whenever the denominator is at least 1e-10 in absolute value, negative
\* total assets or liabilities included, and 0 otherwise; Z'' = 6.56 X1 +
\* 3.26 X2 + 6.72 X3 + 1.05 X4 with X4 from book equity and no revenue term;
\* the zone is Safe if Z'' > 2.60, Distress if Z'' <= 1.10, Gray in between.
C22_zprime_safe_division ==
    outcome # << >> =>
        LET r == outcome[1]
            bs == arguments.balance_sheet
            ratio(num, denom) == IF RLt(RAbs(denom), EPSILON) THEN Zero ELSE RDiv(num, denom)
            z == RAdd(RAdd(RAdd(RMul(R(656, 100), r.x1), RMul(R(326, 100), r.x2)),
                           RMul(R(672, 100), r.x3)), RMul(R(105, 100), r.x4))
        IN  /\ REq(r.x1, ratio(RSub(bs.current_assets, bs.current_liabilities), bs.total_assets))
            /\ REq(r.x2, ratio(bs.retained_earnings, bs.total_assets))
            /\ REq(r.x3, ratio(arguments.income_statement.operating_income, bs.total_assets))
            /\ REq(r.x4, ratio(bs.total_equity, bs.total_liabilities))
            /\ REq(r.z_score, z)
            /\ (r.zone = "Safe") <=> RGt(r.z_score, R(260, 100))
            /\ (r.zone = "Distress") <=> RLe(r.z_score, R(110, 100))
            /\ (r.zone = "Gray") <=> (RGt(r.z_score, R(110, 100)) /\ RLe(r.z_score, R(260, 100)))

\* C23: in every FraudTriangleResult each category score is the number of
\* indicator descriptions of the category over the category's indicator
\* count (pressure / 5, opportunity / 3, rationalization / 2) and lies in
\* [0, 1]; overall_risk = 0.35 pressure + 0.35 opportunity + 0.30
\* rationalization lies in [0, 1]; risk_level is HIGH exactly when
\* overall_risk >= 0.7, MODERATE when 0.4 <= overall_risk < 0.7, ELEVATED
\* when 0.2 <= overall_risk < 0.4 and LOW otherwise.
C23_triangle_scores ==
    outcome # << >> =>
        LET r == outcome[1]
            unit(x) == RGe(x, Zero) /\ RLe(x, One)
            o == r.overall_risk
        IN  /\ REq(r.pressure_score, R(Len(r.pressure_indicators), 5))
            /\ REq(r.opportunity_score, R(Len(r.opportunity_indicators), 3))
            /\ REq(r.rationalization_score, R(Len(r.rationalization_indicators), 2))
            /\ unit(r.pressure_score) /\ unit(r.opportunity_score) /\ unit(r.rationalization_score)
            /\ REq(o, RAdd(RAdd(RMul(R(35, 100), r.pressure_score),
                                RMul(R(35, 100), r.opportunity_score)),
                           RMul(R(30, 100), r.rationalization_score)))
            /\ unit(o)
            /\ (r.risk_level = "HIGH") <=> RGe(o, R(7, 10))
            /\ (r.risk_level = "MODERATE") <=> (RGe(o, R(4, 10)) /\ RLt(o, R(7, 10)))
            /\ (r.risk_level = "ELEVATED") <=> (RGe(o, R(2, 10)) /\ RLt(o, R(4, 10)))
            /\ (r.risk_level = "LOW") <=> RLt(o, R(2, 10))

\* a result with indicators in all three categories and a HIGH level
C23_witness ==
    /\ outcome # << >>
    /\ Len(outcome[1].pressure_indicators) >= 3
    /\ Len(outcome[1].opportunity_indicators) >= 2
    /\ Len(outcome[1].rationalization_indicators) >= 1
    /\ outcome[1].risk_level = "HIGH"

\* C24: the aggressive-accounting indicator fires exactly when some period
\* of the sequence has net income above 1.5 times its operating cash flow,
\* periods with positive net income and zero or negative operating cash
\* flow included.
C24_aggressive_accounting ==
    outcome # << >> =>
        LET fired == \E k \in DOMAIN outcome[1].rationalization_indicators :
                         outcome[1].rationalization_indicators[k] = "Aggressive accounting (income >> cash flow)"
        IN  fired <=> \E i \in 1..Len(arguments) :
                          RGt(arguments[i].income_statement.net_income,
                              RMul(R(15, 10), arguments[i].cash_flow.operating_cash_flow))

\* C25: the unusual-transactions indicator fires exactly when, for some pair
\* of adjacent periods, receivables or inventory changed by more than 50% of
\* the earlier period's value from the earlier period to the later one, be
\* the change an increase or a decrease.
C25_unusual_transactions ==
    outcome # << >> =>
        LET fired == \E k \in DOMAIN outcome[1].opportunity_indicators :
                         outcome[1].opportunity_indicators[k] = "Unusual changes in receivables or inventory"
            \* position i is the later period of the pair, i + 1 the earlier
            jump(later, earlier) == RGt(RAbs(RSub(later, earlier)), RMul(R(5, 10), RAbs(earlier)))
        IN  fired <=> \E i \in 1..(Len(arguments) - 1) :
                          \/ jump(arguments[i].balance_sheet.accounts_receivable,
                                  arguments[i + 1].balance_sheet.accounts_receivable)
                          \/ jump(arguments[i].balance_sheet.inventory,
                                  arguments[i + 1].balance_sheet.inventory)

\* C26: RiskWeights::normalize: when the six weights sum to a positive total
\* each weight becomes its old value divided by the total and the six sum to
\* 1; when the total is zero or negative the six weights are unchanged;
\* normalizing twice gives the weights of normalizing once (the numbers are
\* exact here; the code's doubles carry the rounding of the divisions).
C26_normalize ==
    LET sum(w) == RAdd(RAdd(RAdd(RAdd(RAdd(w.beneish, w.altman), w.piotroski),
                            w.fraud_triangle), w.benford), w.red_flags)
        fields == {"beneish", "altman", "piotroski", "fraud_triangle", "benford", "red_flags"}
        total == sum(arguments)
    IN  /\ Len(outcome) >= 1 =>
               IF RGt(total, Zero)
               THEN /\ \A k \in fields : REq(RMul(outcome[1][k], total), arguments[k])
                    /\ REq(sum(outcome[1]), One)
               ELSE outcome[1] = arguments
        /\ Len(outcome) = 2 => \A k \in fields : REq(outcome[2][k], outcome[1][k])

\* weights summing to 3.35 have been normalized twice, with the same result
C26_witness ==
    /\ Len(outcome) = 2
    /\ arguments.beneish = One /\ arguments.altman = I(2) /\ arguments.benford = R(-5, 100)
    /\ arguments.piotroski = R(15, 100) /\ arguments.fraud_triangle = R(15, 100)
    /\ arguments.red_flags = R(1, 10)
    /\ REq(outcome[1].altman, R(2 * 100, 335))
    /\ outcome[2] = outcome[1]


\* ------------------------------------------------------------------------
\* Properties of an analysis as a whole
\* ------------------------------------------------------------------------

\* C27: in an analysis over exactly two or exactly three snapshots (10 or 15
\* extracted line-item values) of which at least one value has absolute
\* value 1 or more, the first-digit MAD is above 0.015, the Benford result
\* is suspicious and the BENFORD_ANOMALY red flag is raised.
C27_small_sample_is_suspicious ==
    Has(last_call) =>
        LET financials == Get(last_call).financials
            values == extract_all_values(financials)
            result == run_models(financials)
        IN  (/\ Len(values) \in {10, 15}
             /\ \E k \in 1..Len(values) : RGe(RAbs(values[k]), One)) =>
                /\ RGt(Get(result.benford).mad, R(15, 1000))
                /\ Get(result.benford).is_suspicious
                /\ \E k \in 1..Len(result.red_flags) :
                       result.red_flags[k].type = "BENFORD_ANOMALY"

\* fifteen values whose first digits are spread 4, 3, 2, 1, 1, 1, 1, 1, 1
\* over the digits 1 to 9 (the spread nearest to Benford's shares) have been
\* analysed: the MAD is 0.0172 (116 / 6750) and the flag is raised
C27_witness ==
    /\ Has(last_call)
    /\ Len(Get(last_call).financials) = 3
    /\ LET result == run_models(Get(last_call).financials)
           actual == Get(result.benford).actual_distribution
       IN  /\ actual[1] = R(4, 15) /\ actual[2] = R(3, 15) /\ actual[3] = R(2, 15)
           /\ \A i \in 4..9 : actual[i] = R(1, 15)
           /\ REq(Get(result.benford).mad, R(116, 6750))
           /\ \E k \in 1..Len(result.red_flags) :
                  result.red_flags[k].type = "BENFORD_ANOMALY"

\* C28: FraudTriangleModel::determine_risk_level is monotone in the order
\* LOW < MODERATE < ELEVATED < HIGH < CRITICAL of the RiskLevel enum: of two
\* overall scores the lower (or equal) one is not given the level above.
C28_triangle_level_monotone ==
    (outcome # << >> /\ RLe(arguments[1], arguments[2])) =>
        RiskLevelOrd(outcome[1]) <= RiskLevelOrd(outcome[2])

\* C29: in every successful analysis the BANKRUPTCY_RISK red flag ("Altman
\* Z-Score in Distress Zone") is raised exactly when the zone of the Altman
\* result is Distress, at every Z-Score, the boundary value 1.81 included.
C29_bankruptcy_flag_iff_distress ==
    Has(last_call) =>
        LET result == run_models(Get(last_call).financials)
        IN  (\E k \in 1..Len(result.red_flags) :
                 /\ result.red_flags[k].type = "BANKRUPTCY_RISK"
                 /\ result.red_flags[k].title = "Altman Z-Score in Distress Zone")
            <=> Get(result.altman).zone = "Distress"

\* ------------------------------------------------------------------------
\* Properties of the HTTP server (specification SpecServer)
\* ------------------------------------------------------------------------

\* C30: HttpServer runs at most one route handler at any moment: the client
\* thread in a handler holds handlers_mutex_ for as long as the handler
\* runs, so no two client threads are in a handler at once (nor in the calls
\* a handler makes on the shared FraudAnalyzer), and route() never writes
\* handlers_ while a handler runs.
C30_one_handler_at_a_time ==
    LET in_handler == {t \in ClientThreads : connections[t].pc = "handler"}
        in_analyzer == {t \in in_handler : UsesAnalyzer(connections[t].path)}
    IN  /\ Cardinality(in_handler) <= 1
        /\ Cardinality(in_analyzer) <= 1
        /\ \A t \in in_handler : handlers_mutex_ = t
        /\ registration.pc = "insert" => (in_handler = {} /\ handlers_mutex_ = MainThread)

\* one client thread is in the /api/analyze handler while the other, with a
\* parsed request for the same route, has yet to take the lock
C30_witness ==
    /\ connections["client 1"] = [pc |-> "handler", method |-> "GET", path |-> "/api/analyze"]
    /\ connections["client 2"] = [pc |-> "parsed", method |-> "GET", path |-> "/api/analyze"]
    /\ handlers_mutex_ = "client 1"
    /\ registration = Idle

====
